---- MODULE Spec2Model ----
(***************************************************************************)
(* panda-bot: the tool-orchestration engine.                               *)
(*                                                                         *)
(* One processing unit is modelled at the granularity of its await points: *)
(* every action is the resumption of the coroutine at one await together   *)
(* with all the synchronous code that follows it up to the next await (or  *)
(* to the end of the coroutine).  The unit runs either the structured loop *)
(* (ai/tool_runner.py, run_tool_loop) or the text-tagged loop              *)
(* (ai/handler.py, MessageHandler._run_claude_code_tool_loop).  The loop   *)
(* is entered either from handle()/_process_and_respond (entry = "handle") *)
(* or called directly by a caller that owns the cancel event               *)
(* (entry = "direct"): the contract of the loop functions themselves.      *)
(*                                                                         *)
(* Texts are sequences of segments.  A segment is a record: a plain token, *)
(* a <tool_call> tag holding a JSON text, or a JSON text.  f-strings are   *)
(* the concatenation of their parts.                                       *)
(***************************************************************************)
EXTENDS Integers, Sequences, FiniteSets, TLC

\* tool_runner.py: MAX_TOOL_ROUNDS
MAX_TOOL_ROUNDS == 10
\* handler.py: MAX_TOOL_ROUNDS
CLI_MAX_TOOL_ROUNDS == 10
\* handler.py: _split_message(response_text, max_length=4000)
MAX_MESSAGE_LENGTH == 4000

\* Bound of the model: in the first VariedRounds rounds of an invocation the
\* environment answers a tool round in any of its shapes; in the later rounds
\* a tool round is the plain one (one call of a registered tool that succeeds).
\* In a run of a scheduled task the backend asks for tools in the first
\* VariedRounds rounds only, one call of a registered tool each time.
VariedRounds == 1
\* Bound of the model: how many /stop commands arrive.
MaxStops == 1
\* Bound of the model: how many calls are made on a registry.
MaxCalls == 4
\* Bound of the model: how many times the scheduler fires the job.
MaxRuns == 2
\* Bound of the model: how many Turns a history given to build_messages holds.
MaxHistory == 4
\* Bound of the model: how many processing units a handler creates.
MaxUnits == 2
\* Bound of the model: how many attachments a message carries.
MaxFiles == 3
\* Bounds of the model: the length of a text to split, and the chunk length.
MaxText == 6
MaxChunk == 3

\* Turns already stored under the session when a message arrives
MaxStored == 101

VARIABLES
    kind,           \* "structured" | "text": ai_client.supports_tool_loop
    entry,          \* "handle" | "direct": who calls the loop
    pc,             \* the await point the coroutine is suspended at
    idx,            \* index of the block / call / chunk being processed
    rounds,         \* the loop's local `rounds`
    messages,       \* the in-memory message list given to the backend
    store,          \* conversation_turns rows of the session, in insertion order
    resp,           \* the backend response of the current round
    batch,          \* structured loop: state of each _execute_one task
    results,        \* results collected so far in the current round
    cancel_event,   \* asyncio.Event shared with the caller
    cancel_req,     \* Task.cancel() was called, CancelledError not yet raised
    running_tasks,  \* chat_id \in _running_tasks
    response_text,  \* _process_and_respond: response_text
    ret,            \* how the loop invocation ended
    sent,           \* texts handed to adapter.send_message for the chat
    backend_calls,  \* number of backend calls issued by this invocation
    tool_execs,     \* number of tool.execute calls started by this invocation
    base,           \* number of Turns stored before the message arrived
    pre_set,        \* the cancel event was set when the loop was entered
    stops           \* number of /stop commands handled

\* the state outside one processing unit
VARIABLES
    session_id,       \* the session id the unit passes to save_turn
    runs,             \* number of runs of _run_ai_task started
    active_sessions,  \* SessionManager._active_sessions
    minted,           \* number of ids minted by uuid4 so far
    tools,            \* ToolRegistry._tools
    call_log,         \* the calls made on a registry so far, with their results
    fn_in,            \* the arguments of a function under study
    fn_out,           \* its result
    units,            \* the processing units handle() has created, by task
    tracked,          \* MessageHandler._running_tasks of a handler with many chats
    tool_ctx,         \* SchedulerTool._current_bot_id, _current_chat_id
    jobs              \* the jobs of the SchedulerService (APScheduler, scheduled_tasks)

\* the state of one processing unit
uvars == <<kind, entry, pc, idx, rounds, messages, store, resp, batch, results,
           cancel_event, cancel_req, running_tasks, response_text, ret, sent,
           backend_calls, tool_execs, base, pre_set, stops>>

\* the registries and the functions under study
\* the handler of many chats and the scheduler tool they share
chats == <<units, tracked, tool_ctx, jobs>>

aux == <<active_sessions, minted, tools, call_log, fn_in, fn_out, chats>>

vars == <<uvars, session_id, runs, aux>>

(***************************************************************************)
(* Texts                                                                   *)
(***************************************************************************)
NoJson == [ok |-> FALSE, value |-> [tool |-> "", input |-> ""]]

\* a plain token of a Python str
Chr(s) == [kind |-> "chr", s |-> s, json |-> NoJson]

\* a one-token str
Txt(s) == <<Chr(s)>>

\* "<tool_call>{...}</tool_call>" holding the JSON text j
Tag(j) == [kind |-> "tag", s |-> "", json |-> j]

\* a well-formed JSON object text {"tool": name, "input": input}
CallJson(name, input) == [ok |-> TRUE, value |-> [tool |-> name, input |-> input]]

\* a text between braces that json.loads rejects
BadJson == [ok |-> FALSE, value |-> [tool |-> "", input |-> ""]]

IsSpace(seg) == seg.kind = "chr" /\ seg.s \in {" ", "\n"}

RECURSIVE LStrip(_)
LStrip(t) == IF t # <<>> /\ IsSpace(Head(t)) THEN LStrip(Tail(t)) ELSE t

RECURSIVE RStrip(_)
RStrip(t) ==
    IF t # <<>> /\ IsSpace(t[Len(t)]) THEN RStrip(SubSeq(t, 1, Len(t) - 1)) ELSE t

\* the text as it is
Unstripped(t) == t

\* str.strip()
Strip(t) == RStrip(LStrip(t))

RECURSIVE Join(_, _)
\* sep.join(parts)
Join(sep, parts) ==
    IF parts = <<>> THEN <<>>
    ELSE IF Len(parts) = 1 THEN parts[1]
    ELSE parts[1] \o sep \o Join(sep, Tail(parts))

\* TOOL_CALL_PATTERN.findall(text): the JSON texts of the tags, in document order
FindAll(t) ==
    LET tags == SelectSeq(t, LAMBDA seg : seg.kind = "tag")
    IN  [i \in 1..Len(tags) |-> tags[i].json]

\* json.dumps(value)
JsonDumps(v) == <<[kind |-> "json", s |-> "", json |-> [ok |-> TRUE, value |-> v]]>>

\* the sentinels; the Korean texts of the code are written here in ASCII
CANCELLED == Txt("[cancelled (Korean sentinel)]")
LIMIT == Txt("[Tool execution limit reached]")
TOOL_CANCELLED == Txt("[Cancelled]")

(***************************************************************************)
(* Tools, Turns, messages                                                  *)
(***************************************************************************)
\* ToolRegistry._tools: the registered names
Registry == {"filesystem"}

\* ToolRegistry.get(name) is not None
Registered(name) == name \in Registry

\* ConversationRecord
Turn(role, content, tin, tout, tool_name, tool_call_id) ==
    [role |-> role, content |-> content, token_input |-> tin, token_output |-> tout,
     tool_name |-> tool_name, tool_call_id |-> tool_call_id, session_id |-> session_id]

\* {"role": role, "content": <str>}
StrMsg(role, text) == [role |-> role, is_str |-> TRUE, content |-> text]

\* {"role": role, "content": [<block>, ...]}
ListMsg(role, blocks) == [role |-> role, is_str |-> FALSE, content |-> blocks]

TextBlock(text) ==
    [type |-> "text", text |-> text, id |-> 0, name |-> "", input |-> ""]

ToolUseBlock(id, name, input) ==
    [type |-> "tool_use", text |-> <<>>, id |-> id, name |-> name, input |-> input]

\* a tool_result block that loses the id of its call
ToolResultBlock_NoId(id, content) ==
    [type |-> "tool_result", tool_use_id |-> 0, content |-> content]

ToolResultBlock(id, content) ==
    [type |-> "tool_result", tool_use_id |-> id, content |-> content]

NoResp ==
    [content |-> <<>>, text |-> <<>>, input_tokens |-> 0, output_tokens |-> 0,
     error |-> FALSE]
NoRet == [how |-> "none", value |-> <<>>, exc |-> "none"]

(***************************************************************************)
(* Strings built by the code                                               *)
(***************************************************************************)
\* an error string that does not name the tool
UnnamedToolError(name) == Txt("Error: unknown tool")

\* f"Error: unknown tool '{block.name}'"
UnknownToolError(name) == <<Chr("Error: unknown tool '"), Chr(name), Chr("'")>>

\* f"Error executing {block.name}: {e}"
ExecError(name, e) == <<Chr("Error executing "), Chr(name), Chr(": "), Chr(e)>>

\* f"[Tool Result: {tool_name}]\n{result}"
ToolResultText(name, result) ==
    <<Chr("[Tool Result: "), Chr(name), Chr("]"), Chr("\n")>> \o result

\* f"[Tool Error]\n{e}"
ToolErrorText(e) == <<Chr("[Tool Error]"), Chr("\n"), Chr(e)>>

\* f"An error occurred: {e}"
ErrorText(e) == <<Chr("An error occurred: "), Chr(e)>>

\* scheduler.py: f"Scheduled task error: {e}"
SchedErrorText(e) == <<Chr("Scheduled task error: "), Chr(e)>>

STOP_ACK == Txt("[stopped (Korean acknowledgement)]")
NO_TASK == Txt("[no task in progress (Korean)]")

\* _build_tool_reminder(tools)
ToolReminder == <<Chr("\n"), Chr("\n"), Chr("[SYSTEM OVERRIDE: ...]")>>

REFUSAL_NOTE == Txt("[Note: This previous response was incorrect. ...]")

\* refusal_phrases
RefusalPhrases == {"I can't", "I cannot", "not supported"}

(***************************************************************************)
(* _split_message                                                          *)
(***************************************************************************)
IsNewline(seg) == seg.kind = "chr" /\ seg.s = "\n"

RECURSIVE LStripNewlines(_)
\* text.lstrip("\n")
LStripNewlines(t) ==
    IF t # <<>> /\ IsNewline(Head(t)) THEN LStripNewlines(Tail(t)) ELSE t

\* the first newline instead of the last
FindNewline(t, max_length) ==
    LET hits == {i \in 1..max_length : i <= Len(t) /\ IsNewline(t[i])}
    IN  IF hits = {} THEN 0 ELSE CHOOSE i \in hits : \A j \in hits : i <= j

\* text.rfind("\n", 0, max_length), as a 1-based position, 0 when absent
RFindNewline(t, max_length) ==
    LET hits == {i \in 1..max_length : i <= Len(t) /\ IsNewline(t[i])}
    IN  IF hits = {} THEN 0 ELSE CHOOSE i \in hits : \A j \in hits : j <= i

RECURSIVE SplitLoop(_, _)
SplitLoop(t, max_length) ==
    IF t = <<>> THEN <<>>
    ELSE IF Len(t) <= max_length THEN <<t>>
    ELSE LET pos == RFindNewline(t, max_length)
             cut == IF pos = 0 THEN max_length ELSE pos - 1
         IN  <<SubSeq(t, 1, cut)>>
                 \o SplitLoop(LStripNewlines(SubSeq(t, cut + 1, Len(t))), max_length)

\* _split_message(text, max_length)
split_message(t, max_length) ==
    IF Len(t) <= max_length THEN <<t>> ELSE SplitLoop(t, max_length)

(***************************************************************************)
(* build_messages and history                                              *)
(***************************************************************************)
\* get_session_history(bot_id, session_id, limit=100)
HISTORY_LIMIT == 100

\* SELECT ... ORDER BY created_at ASC LIMIT ?
get_session_history(rows) ==
    SubSeq(rows, 1, IF Len(rows) < HISTORY_LIMIT THEN Len(rows) ELSE HISTORY_LIMIT)

\* json.loads(content), {} on failure
LoadsOrEmpty(content) ==
    IF Len(content) = 1 /\ content[1].kind = "json" /\ content[1].json.ok
    THEN content[1].json.value ELSE ""

\* a run that ends with its first Turn
RunEnd_Single(h, i, role) == i

RECURSIVE RunEnd(_, _, _)
\* last index of the run of Turns of `role` that starts at i
RunEnd(h, i, role) ==
    IF i < Len(h) /\ h[i + 1].role = role THEN RunEnd(h, i + 1, role) ELSE i

\* the indices at which the loop over the history appends a message: every
\* user and assistant Turn, and the first Turn of every run of tool_use or
\* tool_result Turns
MessageStarts(h) ==
    {i \in 1..Len(h) :
        \/ h[i].role \in {"user", "assistant"}
        \/ /\ h[i].role \in {"tool_use", "tool_result"}
           /\ (i = 1 \/ h[i - 1].role # h[i].role)}

\* the message the loop appends when it stands at index i
MessageAt(h, i) ==
    IF h[i].role \in {"user", "assistant"}
    THEN StrMsg(h[i].role, h[i].content)
    ELSE IF h[i].role = "tool_use"
    THEN LET j == RunEnd(h, i, "tool_use")
         IN  ListMsg("assistant",
                 [k \in 1..(j - i + 1) |->
                    LET r == h[i + k - 1]
                    IN  ToolUseBlock(IF r.tool_call_id # 0 THEN r.tool_call_id
                                     ELSE 0 - (i + k - 1),
                                     IF r.tool_name # "" THEN r.tool_name ELSE "unknown",
                                     LoadsOrEmpty(r.content))])
    ELSE LET j == RunEnd(h, i, "tool_result")
         IN  ListMsg("user",
                 [k \in 1..(j - i + 1) |->
                    LET r == h[i + k - 1]
                    IN  ToolResultBlock(IF r.tool_call_id # 0 THEN r.tool_call_id
                                        ELSE 0 - (i + k - 1),
                                        r.content)])

\* build_messages(history) without attachments: the messages in the order of
\* their first Turns
build_messages(h) ==
    LET starts == MessageStarts(h)
    IN  [k \in 1..Cardinality(starts) |->
            MessageAt(h, CHOOSE i \in starts : Cardinality({j \in starts : j <= i}) = k)]

(***************************************************************************)
(* Control: how a loop invocation ends, seen from its caller               *)
(***************************************************************************)
Goto(p, i) ==
    /\ pc' = p
    /\ idx' = i
    /\ UNCHANGED <<ret, response_text>>

\* the loop returns v; _process_and_respond, or _run_ai_task, goes on to send it
Return(v) ==
    /\ ret' = [how |-> "return", value |-> v, exc |-> "none"]
    /\ idx' = 1
    /\ IF entry = "handle"
       THEN pc' = "u_send" /\ response_text' = v
       ELSE IF entry = "scheduled"
       THEN pc' = "k_send" /\ response_text' = v
       ELSE pc' = "done" /\ UNCHANGED response_text

\* an exception that ends the task without a response text
RaiseUnconverted(e) ==
    /\ ret' = [how |-> "raise", value |-> <<>>, exc |-> e]
    /\ idx' = 1
    /\ pc' = "done" /\ UNCHANGED response_text

\* the loop raises e; _process_and_respond: except CancelledError: return,
\* except Exception as e: response_text = f"An error occurred: {e}";
\* _run_ai_task: except Exception as e: send f"Scheduled task error: {e}"
Raise(e) ==
    /\ ret' = [how |-> "raise", value |-> <<>>, exc |-> e]
    /\ idx' = 1
    /\ IF entry = "handle" /\ e # "CancelledError"
       THEN pc' = "u_send" /\ response_text' = ErrorText(e)
       ELSE IF entry = "scheduled" /\ e # "CancelledError"
       THEN pc' = "k_error" /\ response_text' = SchedErrorText(e)
       ELSE pc' = "done" /\ UNCHANGED response_text

(***************************************************************************)
(* Initial states                                                          *)
(***************************************************************************)
\* Turns of the session stored by earlier messages
PriorHistories ==
    { <<Turn("user", Txt("hi"), 0, 0, "", 0),
        Turn("assistant", Txt("hello"), 0, 0, "", 0)>> }

\* the registries as constructed and no function under study
AuxIdle ==
    /\ active_sessions = <<>>
    /\ minted = 0
    /\ tools = <<>>
    /\ call_log = <<>>
    /\ fn_in = <<>>
    /\ fn_out = <<>>
    /\ units = <<>>
    /\ tracked = <<>>
    /\ tool_ctx = [bot_id |-> "", chat_id |-> ""]
    /\ jobs = {}

Init ==
    /\ AuxIdle
    /\ session_id = "s1"
    /\ runs = 0
    /\ kind \in {"structured", "text"}
    /\ entry \in {"handle", "direct"}
    /\ IF entry = "handle" THEN store \in PriorHistories ELSE store = <<>>
    /\ base = Len(store)
    /\ IF entry = "handle"
       THEN /\ pc = "idle"
            /\ messages = <<>>
            /\ cancel_event = FALSE
       ELSE /\ pc = "loop_entry"
            /\ messages = <<StrMsg("user", Txt("task"))>>
            /\ cancel_event \in BOOLEAN
    /\ idx = 0
    /\ rounds = 0
    /\ resp = NoResp
    /\ batch = <<>>
    /\ results = <<>>
    /\ cancel_req = FALSE
    /\ running_tasks = FALSE
    /\ response_text = <<>>
    /\ ret = NoRet
    /\ sent = <<>>
    /\ backend_calls = 0
    /\ tool_execs = 0
    /\ pre_set = FALSE
    /\ stops = 0

(***************************************************************************)
(* Environment: what the collaborators may answer                          *)
(***************************************************************************)
\* tool names a structured response asks for, one per tool_use block
ToolShapes ==
    { <<"filesystem">>, <<"nope">>, <<"filesystem", "filesystem">>,
      <<"filesystem", "nope">>, <<"nope", "filesystem">> }

\* the plain tool round
PlainShape == <<"filesystem">>

\* Message.content of a response with tool_use blocks; ids are unique
ToolContent(shape, lead, r) ==
    (IF lead THEN <<TextBlock(Txt("let me look"))>> ELSE <<>>)
        \o [i \in 1..Len(shape) |-> ToolUseBlock(10 * (r + 1) + i, shape[i], "args")]

\* Message.content of a response without tool_use blocks
FinalContents ==
    { <<>>, <<TextBlock(Txt("4"))>>, <<TextBlock(Txt("a")), TextBlock(Txt("b"))>> }

StructuredResponse(content) ==
    [content |-> content, text |-> <<>>, input_tokens |-> 7, output_tokens |-> 3,
     error |-> FALSE]

\* what tool.execute returns
ToolOutput == Txt("a.txt, b.txt")

\* the environment may leave the plain round
Varied == rounds < VariedRounds

(***************************************************************************)
(* run_tool_loop (structured backend)                                      *)
(***************************************************************************)
\* [b for b in content_blocks if b.type == "tool_use"]
ToolUseBlocks(content) == SelectSeq(content, LAMBDA b : b.type = "tool_use")

\* "\n".join(b.text for b in text_blocks)
FinalText(content) ==
    LET tb == SelectSeq(content, LAMBDA b : b.type = "text")
    IN  Join(Txt("\n"), [i \in 1..Len(tb) |-> tb[i].text])

\* the tool_use record saved for a block
ToolUseTurn(block, r) ==
    Turn("tool_use", JsonDumps(block.input), r.input_tokens, r.output_tokens,
         block.name, block.id)

\* a tool_result record that does not name the tool
ToolResultTurn_Unnamed(blocks, res) ==
    Turn("tool_result", res.text, 0, 0, "", res.id)

\* the tool_result record saved for a result
ToolResultTurn(blocks, res) ==
    LET m == {i \in 1..Len(blocks) : blocks[i].id = res.id}
    IN  Turn("tool_result", res.text, 0, 0,
             IF m = {} THEN ""
             ELSE blocks[CHOOSE i \in m : \A j \in m : i <= j].name,
             res.id)

\* the assistant message built from the response's blocks, in original order
AssistantContent(content) ==
    LET kept == SelectSeq(content, LAMBDA b : b.type \in {"text", "tool_use"})
    IN  [i \in 1..Len(kept) |->
            IF kept[i].type = "text" THEN TextBlock(kept[i].text)
            ELSE ToolUseBlock(kept[i].id, kept[i].name, kept[i].input)]

\* tool_result_content
ToolResultContent(res) == [i \in 1..Len(res) |-> ToolResultBlock(res[i].id, res[i].text)]

\* the record handed to the save_turn call the coroutine is suspended in
\* the task_prompt of a scheduled job
TaskPrompt == Txt("task")

PendingTurn ==
    CASE pc = "s_save_tool_use" -> ToolUseTurn(ToolUseBlocks(resp.content)[idx], resp)
      [] pc = "s_save_result" -> ToolResultTurn(ToolUseBlocks(resp.content), results[idx])
      [] pc = "s_save_final" ->
            Turn("assistant", FinalText(resp.content), resp.input_tokens,
                 resp.output_tokens, "", 0)
      [] pc = "t_save_final" ->
            Turn("assistant", Strip(resp.text), resp.input_tokens, resp.output_tokens,
                 "", 0)
      [] pc = "t_save_assistant" -> Turn("assistant", resp.text, 0, 0, "", 0)
      [] pc = "t_save_results" ->
            Turn("user", Join(<<Chr("\n"), Chr("\n")>>, results), 0, 0, "", 0)
      [] pc = "k_save_user" -> Turn("user", TaskPrompt, 0, 0, "", 0)
      [] pc = "k_save_assistant" -> Turn("assistant", resp.text, 0, 0, "", 0)

SavePcs ==
    {"s_save_tool_use", "s_save_result", "s_save_final", "t_save_final",
     "t_save_assistant", "t_save_results", "k_save_user", "k_save_assistant"}

\* a pre-request check that never sees the event
S_PreRequestUnchecked == FALSE

\* `if cancel_event and cancel_event.is_set()` at the top of the while body
S_PreRequestCancelled == cancel_event

\* a pre-batch check that never sees the event
S_PreBatchUnchecked == FALSE

\* `if cancel_event and cancel_event.is_set()` before the tool batch
S_PreBatchCancelled == cancel_event

\* a loop head whose ceiling test lets one more round through
S_Head_OffByOne(r) ==
    IF ~(r <= MAX_TOOL_ROUNDS) THEN Return(LIMIT) /\ UNCHANGED backend_calls
    ELSE IF cancel_event THEN Return(CANCELLED) /\ UNCHANGED backend_calls
    ELSE Goto("s_await_model", 0) /\ backend_calls' = backend_calls + 1

\* the while condition, the pre-request check and the backend call
S_Head(r) ==
    IF ~(r < MAX_TOOL_ROUNDS) THEN Return(LIMIT) /\ UNCHANGED backend_calls
    ELSE IF S_PreRequestCancelled THEN Return(CANCELLED) /\ UNCHANGED backend_calls
    ELSE Goto("s_await_model", 0) /\ backend_calls' = backend_calls + 1

\* the coroutine starts: _process_and_respond up to the loop, then the loop
\* up to its first await
S_Start ==
    /\ UNCHANGED <<session_id, runs, aux>>
    /\ pc = "loop_entry" /\ kind = "structured" /\ ~cancel_req
    /\ IF entry = "handle" /\ cancel_event
       THEN /\ pc' = "done"
            /\ UNCHANGED <<idx, ret, response_text, backend_calls, pre_set>>
       ELSE /\ pre_set' = cancel_event
            /\ S_Head(0)
    /\ UNCHANGED <<kind, entry, rounds, messages, store, resp, batch, results,
                   cancel_event, cancel_req, running_tasks, sent, tool_execs,
                   base, stops>>

\* create_message returns a response
S_ModelReturns ==
    /\ UNCHANGED <<session_id, runs, aux>>
    /\ pc = "s_await_model" /\ ~cancel_req
    /\ \/ \E shape \in ToolShapes, lead \in BOOLEAN :
            /\ IF entry = "scheduled"
               THEN Varied /\ shape = PlainShape /\ ~lead
               ELSE Varied \/ (shape = PlainShape /\ ~lead)
            /\ lead => shape = PlainShape
            /\ resp' = StructuredResponse(ToolContent(shape, lead, rounds))
            /\ Goto("s_save_tool_use", 1)
            /\ UNCHANGED messages
       \/ \E content \in FinalContents :
            /\ resp' = StructuredResponse(content)
            /\ messages' = Append(messages, StrMsg("assistant", FinalText(content)))
            /\ Goto("s_save_final", 0)
    /\ UNCHANGED <<kind, entry, rounds, store, batch, results, cancel_event,
                   cancel_req, running_tasks, sent, backend_calls, tool_execs,
                   base, pre_set, stops>>

\* create_message raises (network failure, API error, malformed payload)
S_ModelRaises ==
    /\ UNCHANGED <<session_id, runs, aux>>
    /\ pc = "s_await_model" /\ ~cancel_req
    /\ Raise("BackendError")
    /\ UNCHANGED <<kind, entry, rounds, messages, store, resp, batch, results,
                   cancel_event, cancel_req, running_tasks, sent, backend_calls,
                   tool_execs, base, pre_set, stops>>

\* save_turn of one tool_use record returns; after the last one the assistant
\* message is appended, the pre-batch check made and the batch started
S_SaveToolUse ==
    /\ UNCHANGED <<session_id, runs, aux>>
    /\ pc = "s_save_tool_use" /\ ~cancel_req
    /\ LET blocks == ToolUseBlocks(resp.content)
       IN  /\ store' = Append(store, PendingTurn)
           /\ IF idx < Len(blocks)
              THEN Goto("s_save_tool_use", idx + 1) /\ UNCHANGED <<messages, batch>>
              ELSE /\ messages' =
                        Append(messages, ListMsg("assistant", AssistantContent(resp.content)))
                   /\ IF S_PreBatchCancelled
                      THEN Return(CANCELLED) /\ UNCHANGED batch
                      ELSE /\ Goto("s_gather", 0)
                           /\ batch' = [i \in 1..Len(blocks) |->
                                          [st |-> "pending", text |-> <<>>]]
    /\ UNCHANGED <<kind, entry, rounds, resp, results, cancel_event, cancel_req,
                   running_tasks, sent, backend_calls, tool_execs, base,
                   pre_set, stops>>

\* an _execute_one that never starts once the event is set
S_ExecuteOneStart_Abandoning(i) ==
    /\ UNCHANGED <<session_id, runs, aux>>
    /\ pc = "s_gather" /\ ~cancel_req /\ ~cancel_event
    /\ i \in DOMAIN batch /\ batch[i].st = "pending"
    /\ LET block == ToolUseBlocks(resp.content)[i]
       IN  IF ~Registered(block.name)
           THEN /\ batch' = [batch EXCEPT
                               ![i] = [st |-> "done", text |-> UnknownToolError(block.name)]]
                /\ UNCHANGED tool_execs
           ELSE /\ batch' = [batch EXCEPT ![i].st = "running"]
                /\ tool_execs' = tool_execs + 1
    /\ UNCHANGED <<kind, entry, pc, idx, rounds, messages, store, resp, results,
                   cancel_event, cancel_req, running_tasks, response_text, ret, sent,
                   backend_calls, base, pre_set, stops>>

\* _execute_one(block) runs up to its await of tool.execute
S_ExecuteOneStart(i) ==
    /\ UNCHANGED <<session_id, runs, aux>>
    /\ pc = "s_gather" /\ ~cancel_req
    /\ i \in DOMAIN batch /\ batch[i].st = "pending"
    /\ LET block == ToolUseBlocks(resp.content)[i]
       IN  IF cancel_event
           THEN /\ batch' = [batch EXCEPT ![i] = [st |-> "done", text |-> TOOL_CANCELLED]]
                /\ UNCHANGED tool_execs
           ELSE IF ~Registered(block.name)
           THEN /\ batch' = [batch EXCEPT
                               ![i] = [st |-> "done", text |-> UnknownToolError(block.name)]]
                /\ UNCHANGED tool_execs
           ELSE /\ batch' = [batch EXCEPT ![i].st = "running"]
                /\ tool_execs' = tool_execs + 1
    /\ UNCHANGED <<kind, entry, pc, idx, rounds, messages, store, resp, results,
                   cancel_event, cancel_req, running_tasks, response_text, ret, sent,
                   backend_calls, base, pre_set, stops>>

\* tool.execute returns or raises inside _execute_one
S_ExecuteOneFinish(i) ==
    /\ UNCHANGED <<session_id, runs, aux>>
    /\ pc = "s_gather" /\ ~cancel_req
    /\ i \in DOMAIN batch /\ batch[i].st = "running"
    /\ LET block == ToolUseBlocks(resp.content)[i]
       IN  \/ batch' = [batch EXCEPT ![i] = [st |-> "done", text |-> ToolOutput]]
           \/ /\ Varied
              /\ batch' = [batch EXCEPT
                             ![i] = [st |-> "done", text |-> ExecError(block.name, "boom")]]
    /\ UNCHANGED <<kind, entry, pc, idx, rounds, messages, store, resp, results,
                   cancel_event, cancel_req, running_tasks, response_text, ret, sent,
                   backend_calls, tool_execs, base, pre_set, stops>>

\* asyncio.gather returns the results in the order of the blocks
S_GatherReturns ==
    /\ UNCHANGED <<session_id, runs, aux>>
    /\ pc = "s_gather" /\ ~cancel_req
    /\ \A i \in DOMAIN batch : batch[i].st = "done"
    /\ results' = [i \in DOMAIN batch |->
                     [id |-> ToolUseBlocks(resp.content)[i].id, text |-> batch[i].text]]
    /\ Goto("s_save_result", 1)
    /\ UNCHANGED <<kind, entry, rounds, messages, store, resp, batch, cancel_event,
                   cancel_req, running_tasks, sent, backend_calls, tool_execs,
                   base, pre_set, stops>>

\* save_turn of one tool_result record returns; after the last one the user
\* message is appended and the next round begins (the locals of the finished
\* round are rebound before they are read again)
S_SaveResult ==
    /\ UNCHANGED <<session_id, runs, aux>>
    /\ pc = "s_save_result" /\ ~cancel_req
    /\ store' = Append(store, PendingTurn)
    /\ IF idx < Len(results)
       THEN /\ Goto("s_save_result", idx + 1)
            /\ UNCHANGED <<messages, rounds, backend_calls, resp, batch, results>>
       ELSE /\ messages' = Append(messages, ListMsg("user", ToolResultContent(results)))
            /\ rounds' = rounds + 1
            /\ resp' = NoResp /\ batch' = <<>> /\ results' = <<>>
            /\ S_Head(rounds + 1)
    /\ UNCHANGED <<kind, entry, cancel_event, cancel_req, running_tasks, sent,
                   tool_execs, base, pre_set, stops>>

\* a FINAL step that returns the text without saving the Turn
S_ReturnUnsaved ==
    /\ UNCHANGED <<session_id, runs, aux>>
    /\ pc = "s_save_final" /\ ~cancel_req
    /\ Return(FinalText(resp.content))
    /\ UNCHANGED <<kind, entry, rounds, messages, store, resp, batch, results,
                   cancel_event, cancel_req, running_tasks, sent, backend_calls,
                   tool_execs, base, pre_set, stops>>

\* save_turn of the final assistant record returns
S_SaveFinal ==
    /\ UNCHANGED <<session_id, runs, aux>>
    /\ pc = "s_save_final" /\ ~cancel_req
    /\ store' = Append(store, PendingTurn)
    /\ Return(FinalText(resp.content))
    /\ UNCHANGED <<kind, entry, rounds, messages, resp, batch, results, cancel_event,
                   cancel_req, running_tasks, sent, backend_calls, tool_execs,
                   base, pre_set, stops>>

(***************************************************************************)
(* _run_claude_code_tool_loop (text-tagged backend)                        *)
(***************************************************************************)
\* what each <tool_call> tag of a response holds: a tool name, or "BAD" for
\* a text that is not JSON
TagShapes ==
    { <<"filesystem">>, <<"nope">>, <<"BAD">>, <<"filesystem", "filesystem">>,
      <<"BAD", "filesystem">>, <<"filesystem", "nope">> }

TaggedText(shape) ==
    <<Chr("I will use a tool"), Chr("\n")>>
        \o [i \in 1..Len(shape) |->
              Tag(IF shape[i] = "BAD" THEN BadJson ELSE CallJson(shape[i], "args"))]

\* response texts without tags
FinalTexts ==
    { <<>>, Txt("Found 2 files"), <<Chr(" "), Chr("Found 2 files"), Chr("\n")>> }

\* ClaudeCodeClient.chat: the texts of its error branches (non-zero exit,
\* timeout, executable not found)
ChatErrorTexts ==
    { Txt("Claude Code error (exit 1): ..."), Txt("Claude Code timed out after ...") }

\* ClaudeCodeClient._parse_response
TextResponse(text) ==
    [content |-> <<>>, text |-> text, input_tokens |-> 7, output_tokens |-> 3,
     error |-> FALSE]

\* AIResponse(text=...) of an error branch of chat
ErrorResponse(text) ==
    [content |-> <<>>, text |-> text, input_tokens |-> 0, output_tokens |-> 0,
     error |-> TRUE]

\* ai_config.tools
ConfigTools == <<"filesystem">>

\* ToolRegistry.get_tools_by_names(names)
get_tools_by_names(names) == SelectSeq(names, Registered)

IsRefusal(text) == \E i \in 1..Len(text) : text[i].kind = "chr" /\ text[i].s \in RefusalPhrases

\* index of the last user message whose content is a str, 0 when there is none
LastUserStr(ms) ==
    LET hits == {i \in 1..Len(ms) : ms[i].role = "user" /\ ms[i].is_str}
    IN  IF hits = {} THEN 0 ELSE CHOOSE i \in hits : \A j \in hits : j <= i

\* the copy of the message list the loop works on: refusals rewritten, the
\* reminder appended to the last user message
Prepare(ms) ==
    IF get_tools_by_names(ConfigTools) = <<>> \/ ms = <<>> THEN ms
    ELSE LET clean == [i \in 1..Len(ms) |->
                         IF ms[i].role = "assistant" /\ ms[i].is_str /\ IsRefusal(ms[i].content)
                         THEN [ms[i] EXCEPT !.content = REFUSAL_NOTE] ELSE ms[i]]
             u == LastUserStr(clean)
         IN  IF u = 0 THEN clean
             ELSE [clean EXCEPT ![u].content = clean[u].content \o ToolReminder]

\* `if cancel_event and cancel_event.is_set()` at the top of the while body
T_PreRequestCancelled == cancel_event

\* the same check after chat() has returned
T_PostRequestCancelled == cancel_event

\* a check before the tool executions that never sees the event
T_PreToolUnchecked == FALSE

\* the same check before each tool execution
T_PreToolCancelled == cancel_event

\* the while condition, the pre-request check and the backend call
T_Head(r) ==
    IF ~(r < CLI_MAX_TOOL_ROUNDS) THEN Return(LIMIT) /\ UNCHANGED backend_calls
    ELSE IF T_PreRequestCancelled THEN Return(CANCELLED) /\ UNCHANGED backend_calls
    ELSE Goto("t_await_chat", 0) /\ backend_calls' = backend_calls + 1

\* a for loop that a malformed tag ends
T_AdvanceStop(calls, i, res) ==
    IF i > Len(calls) THEN [i |-> i, res |-> res]
    ELSE IF ~calls[i].ok
    THEN [i |-> Len(calls) + 1, res |-> Append(res, ToolErrorText("JSONDecodeError"))]
    ELSE [i |-> i, res |-> res]

RECURSIVE T_Advance(_, _, _)
\* the iterations of `for call_json in tool_calls` that do not await: a tag
\* whose JSON does not parse, a tool name that is not registered
T_Advance(calls, i, res) ==
    IF i > Len(calls) THEN [i |-> i, res |-> res]
    ELSE IF ~calls[i].ok
    THEN T_Advance(calls, i + 1, Append(res, ToolErrorText("JSONDecodeError")))
    ELSE IF ~Registered(calls[i].value.tool)
    THEN T_Advance(calls, i + 1,
                   Append(res, ToolResultText(calls[i].value.tool,
                                              UnknownToolError(calls[i].value.tool))))
    ELSE [i |-> i, res |-> res]

\* the for loop from iteration i on, with the results collected so far
T_Calls(i, res) ==
    LET calls == FindAll(resp.text)
        a == T_Advance(calls, i, res)
    IN  IF i <= Len(calls) /\ T_PreToolCancelled
        THEN Return(CANCELLED) /\ results' = res /\ UNCHANGED tool_execs
        ELSE IF a.i > Len(calls)
        THEN Goto("t_save_results", 0) /\ results' = a.res /\ UNCHANGED tool_execs
        ELSE Goto("t_exec", a.i) /\ results' = a.res /\ tool_execs' = tool_execs + 1

\* the coroutine starts: _process_and_respond up to the loop, then the loop
\* up to its first await
T_Start ==
    /\ UNCHANGED <<session_id, runs, aux>>
    /\ pc = "loop_entry" /\ kind = "text" /\ ~cancel_req
    /\ IF entry = "handle" /\ cancel_event
       THEN /\ pc' = "done"
            /\ UNCHANGED <<idx, ret, response_text, backend_calls, messages, pre_set>>
       ELSE /\ pre_set' = cancel_event
            /\ messages' = Prepare(messages)
            /\ T_Head(0)
    /\ UNCHANGED <<kind, entry, rounds, store, resp, batch, results, cancel_event,
                   cancel_req, running_tasks, sent, tool_execs, base, stops>>

\* chat() returns a response: parsed output, or the text of an error branch
T_ChatReturns ==
    /\ UNCHANGED <<session_id, runs, aux>>
    /\ pc = "t_await_chat" /\ ~cancel_req
    /\ \/ \E shape \in TagShapes :
            /\ Varied \/ shape = PlainShape
            /\ resp' = TextResponse(TaggedText(shape))
       \/ \E text \in FinalTexts : resp' = TextResponse(text)
       \/ \E text \in ChatErrorTexts : resp' = ErrorResponse(text)
    /\ IF T_PostRequestCancelled
       THEN Return(CANCELLED) /\ UNCHANGED messages
       ELSE IF FindAll(resp'.text) = <<>>
       THEN Goto("t_save_final", 0) /\ UNCHANGED messages
       ELSE /\ messages' = Append(messages, StrMsg("assistant", resp'.text))
            /\ Goto("t_save_assistant", 0)
    /\ UNCHANGED <<kind, entry, rounds, store, batch, results, cancel_event,
                   cancel_req, running_tasks, sent, backend_calls, tool_execs,
                   base, pre_set, stops>>

\* chat() raises: an exception of the subprocess call that chat does not catch
T_ChatRaises ==
    /\ UNCHANGED <<session_id, runs, aux>>
    /\ pc = "t_await_chat" /\ ~cancel_req
    /\ Raise("BackendError")
    /\ UNCHANGED <<kind, entry, rounds, messages, store, resp, batch, results,
                   cancel_event, cancel_req, running_tasks, sent, backend_calls,
                   tool_execs, base, pre_set, stops>>

\* save_turn of the final assistant record returns
T_SaveFinal ==
    /\ UNCHANGED <<session_id, runs, aux>>
    /\ pc = "t_save_final" /\ ~cancel_req
    /\ store' = Append(store, PendingTurn)
    /\ Return(Strip(resp.text))
    /\ UNCHANGED <<kind, entry, rounds, messages, resp, batch, results, cancel_event,
                   cancel_req, running_tasks, sent, backend_calls, tool_execs,
                   base, pre_set, stops>>

\* save_turn of the tagged assistant record returns; the for loop starts
T_SaveAssistant ==
    /\ UNCHANGED <<session_id, runs, aux>>
    /\ pc = "t_save_assistant" /\ ~cancel_req
    /\ store' = Append(store, PendingTurn)
    /\ T_Calls(1, <<>>)
    /\ UNCHANGED <<kind, entry, rounds, messages, resp, batch, cancel_event,
                   cancel_req, running_tasks, sent, backend_calls, base,
                   pre_set, stops>>

\* a for loop that puts the newest result in front of the others
T_ExecReturns_Prepending ==
    /\ UNCHANGED <<session_id, runs, aux>>
    /\ pc = "t_exec" /\ ~cancel_req
    /\ LET name == FindAll(resp.text)[idx].value.tool
       IN  \/ T_Calls(idx + 1, <<ToolResultText(name, ToolOutput)>> \o results)
           \/ /\ Varied
              /\ T_Calls(idx + 1, <<ToolErrorText("boom")>> \o results)
    /\ UNCHANGED <<kind, entry, rounds, messages, store, resp, batch, cancel_event,
                   cancel_req, running_tasks, sent, backend_calls, base, pre_set, stops>>

\* tool.execute returns or raises an ordinary exception; the for loop goes on
T_ExecReturns ==
    /\ UNCHANGED <<session_id, runs, aux>>
    /\ pc = "t_exec" /\ ~cancel_req
    /\ LET name == FindAll(resp.text)[idx].value.tool
       IN  \/ T_Calls(idx + 1, Append(results, ToolResultText(name, ToolOutput)))
           \/ /\ Varied
              /\ T_Calls(idx + 1, Append(results, ToolErrorText("boom")))
    /\ UNCHANGED <<kind, entry, rounds, messages, store, resp, batch, cancel_event,
                   cancel_req, running_tasks, sent, backend_calls, base, pre_set, stops>>

\* a round that feeds the results back without persisting them
T_SaveResults_Unsaved ==
    /\ UNCHANGED <<session_id, runs, aux>>
    /\ pc = "t_save_results" /\ ~cancel_req
    /\ UNCHANGED store
    /\ messages' = Append(messages, StrMsg("user", PendingTurn.content))
    /\ rounds' = rounds + 1
    /\ resp' = NoResp /\ results' = <<>>
    /\ T_Head(rounds + 1)
    /\ UNCHANGED <<kind, entry, batch, cancel_event, cancel_req, running_tasks, sent,
                   tool_execs, base, pre_set, stops>>

\* save_turn of the results record returns; the next round begins
T_SaveResults ==
    /\ UNCHANGED <<session_id, runs, aux>>
    /\ pc = "t_save_results" /\ ~cancel_req
    /\ store' = Append(store, PendingTurn)
    /\ messages' = Append(messages, StrMsg("user", PendingTurn.content))
    /\ rounds' = rounds + 1
    /\ resp' = NoResp /\ results' = <<>>
    /\ T_Head(rounds + 1)
    /\ UNCHANGED <<kind, entry, batch, cancel_event, cancel_req, running_tasks, sent,
                   tool_execs, base, pre_set, stops>>

(***************************************************************************)
(* handle(), _process_and_respond, /stop                                   *)
(***************************************************************************)
\* handle() for a message that is no command: the user Turn is saved, the
\* history loaded, the message list built and the task created and tracked
HandleMessage ==
    /\ UNCHANGED <<session_id, runs, aux>>
    /\ pc = "idle"
    /\ store' = Append(store, Turn("user", Txt("what's 2+2?"), 0, 0, "", 0))
    /\ messages' = build_messages(get_session_history(store'))
    /\ running_tasks' = TRUE
    /\ pc' = "loop_entry"
    /\ UNCHANGED <<kind, entry, idx, rounds, resp, batch, results, cancel_event,
                   cancel_req, response_text, ret, sent, backend_calls, tool_execs,
                   base, pre_set, stops>>

\* handle(): save_turn of the user Turn raises; no task is created
HandleMessageRaises ==
    /\ UNCHANGED <<session_id, runs, aux>>
    /\ pc = "idle"
    /\ pc' = "handle_raised"
    /\ UNCHANGED <<kind, entry, idx, rounds, messages, store, resp, batch, results,
                   cancel_event, cancel_req, running_tasks, response_text, ret, sent,
                   backend_calls, tool_execs, base, pre_set, stops>>

\* task.done()
TaskDone == pc \in {"done", "finished"}

\* handle() for "/stop"
HandleStop ==
    /\ UNCHANGED <<session_id, runs, aux>>
    /\ entry = "handle"
    /\ stops < MaxStops
    /\ stops' = stops + 1
    /\ IF running_tasks
       THEN /\ cancel_event' = TRUE
            /\ cancel_req' = IF TaskDone THEN cancel_req ELSE TRUE
            /\ sent' = Append(sent, STOP_ACK)
       ELSE /\ sent' = Append(sent, NO_TASK)
            /\ UNCHANGED <<cancel_event, cancel_req>>
    /\ UNCHANGED <<kind, entry, pc, idx, rounds, messages, store, resp, batch,
                   results, running_tasks, response_text, ret, backend_calls,
                   tool_execs, base, pre_set>>

\* the owner of the cancel event of a directly called loop sets it
SetCancel ==
    /\ UNCHANGED <<session_id, runs, aux>>
    /\ entry = "direct" /\ ~cancel_event /\ pc # "done"
    /\ cancel_event' = TRUE
    /\ UNCHANGED <<kind, entry, pc, idx, rounds, messages, store, resp, batch,
                   results, cancel_req, running_tasks, response_text, ret, sent,
                   backend_calls, tool_execs, base, pre_set, stops>>

\* adapter.send_message(text) puts a message in the chat: the Discord adapter
\* sends `while text:`, the Telegram API rejects an empty text
Delivered(text) == text # <<>>

\* _process_and_respond: adapter.send_message of one chunk returns, or raises
\* for a text the platform rejects (the exception ends the task)
U_Send ==
    /\ UNCHANGED <<session_id, runs, aux>>
    /\ pc = "u_send" /\ ~cancel_req
    /\ LET chunks == split_message(response_text, MAX_MESSAGE_LENGTH)
       IN  /\ sent' = IF Delivered(chunks[idx]) THEN Append(sent, chunks[idx]) ELSE sent
           /\ \/ IF idx < Len(chunks)
                 THEN pc' = "u_send" /\ idx' = idx + 1
                 ELSE pc' = "done" /\ idx' = idx
              \/ ~Delivered(chunks[idx]) /\ pc' = "done" /\ idx' = idx
    /\ UNCHANGED <<kind, entry, rounds, messages, store, resp, batch, results,
                   cancel_event, cancel_req, running_tasks, response_text, ret,
                   backend_calls, tool_execs, base, pre_set, stops>>

\* _on_task_done
OnTaskDone ==
    /\ UNCHANGED <<session_id, runs, aux>>
    /\ entry = "handle" /\ pc = "done"
    /\ running_tasks' = FALSE
    /\ pc' = "finished"
    /\ UNCHANGED <<kind, entry, idx, rounds, messages, store, resp, batch, results,
                   cancel_event, cancel_req, response_text, ret, sent, backend_calls,
                   tool_execs, base, pre_set, stops>>

\* save_turn raises inside a loop
SaveTurnRaises ==
    /\ UNCHANGED <<session_id, runs, aux>>
    /\ pc \in SavePcs /\ ~cancel_req
    /\ Raise("PersistenceError")
    /\ UNCHANGED <<kind, entry, rounds, messages, store, resp, batch, results,
                   cancel_event, cancel_req, running_tasks, sent, backend_calls,
                   tool_execs, base, pre_set, stops>>

\* Task.cancel() takes effect: CancelledError is raised at the await the
\* coroutine is suspended in (a task that has not started never runs)
TaskCancelled ==
    /\ UNCHANGED <<session_id, runs, aux>>
    /\ cancel_req
    /\ cancel_req' = FALSE
    /\ CASE pc = "loop_entry" ->
              /\ pc' = "done"
              /\ UNCHANGED <<idx, ret, response_text, store, batch>>
         [] pc \in {"s_await_model", "t_await_chat"} ->
              /\ Raise("CancelledError")
              /\ UNCHANGED <<store, batch>>
         [] pc \in SavePcs ->
              /\ Raise("CancelledError")
              /\ store' \in {store, Append(store, PendingTurn)}
              /\ UNCHANGED batch
         [] pc = "s_gather" ->
              /\ Raise("CancelledError")
              /\ batch' = [i \in DOMAIN batch |->
                             IF batch[i].st = "done" THEN batch[i]
                             ELSE [st |-> "done", text |-> TOOL_CANCELLED]]
              /\ UNCHANGED store
         [] pc = "t_exec" ->
              /\ Return(CANCELLED)
              /\ UNCHANGED <<store, batch>>
         [] pc = "u_send" ->
              /\ pc' = "done"
              /\ UNCHANGED <<idx, ret, response_text, store, batch>>
    /\ UNCHANGED <<kind, entry, rounds, messages, resp, results, cancel_event,
                   running_tasks, sent, backend_calls, tool_execs, base,
                   pre_set, stops>>

(***************************************************************************)
(* Specification                                                           *)
(***************************************************************************)
\* the steps of the coroutine and of its collaborators
UnitNext ==
    \/ S_Start \/ S_ModelReturns \/ S_ModelRaises \/ S_SaveToolUse
    \/ (\E i \in 1..2 : S_ExecuteOneStart(i))
    \/ (\E i \in 1..2 : S_ExecuteOneFinish(i))
    \/ S_GatherReturns \/ S_SaveResult \/ S_SaveFinal
    \/ T_Start \/ T_ChatReturns \/ T_ChatRaises \/ T_SaveFinal \/ T_SaveAssistant
    \/ T_ExecReturns \/ T_SaveResults
    \/ U_Send \/ OnTaskDone \/ SaveTurnRaises \/ TaskCancelled

Next ==
    \/ HandleMessage \/ HandleMessageRaises \/ HandleStop \/ SetCancel
    \/ UnitNext

Spec == Init /\ [][Next]_vars

(***************************************************************************)
(* core/session.py: the registry of active sessions                        *)
(***************************************************************************)
\* a processing unit that never starts
UnitIdle ==
    /\ kind = "structured" /\ entry = "none" /\ pc = "done" /\ idx = 0
    /\ rounds = 0 /\ messages = <<>> /\ store = <<>> /\ resp = NoResp
    /\ batch = <<>> /\ results = <<>> /\ cancel_event = FALSE
    /\ cancel_req = FALSE /\ running_tasks = FALSE /\ response_text = <<>>
    /\ ret = NoRet /\ sent = <<>> /\ backend_calls = 0 /\ tool_execs = 0
    /\ base = 0 /\ pre_set = FALSE /\ stops = 0
    /\ session_id = "s1" /\ runs = 0

\* the bots and chats of the calls
Bots == {"b1", "b2"}

Chats == {"c1", "c2"}

\* d[k] = v on a dict
Put(d, k, v) == [x \in DOMAIN d \cup {k} |-> IF x = k THEN v ELSE d[x]]

\* uuid.uuid4().hex[:12] repeating its first value
uuid4_Repeated == IF minted = 0 THEN 1 ELSE minted

\* uuid.uuid4().hex[:12]: an id no earlier call has returned
uuid4 == minted + 1

\* the call logged with its result and the registry it leaves
Logged(op, key, result, mint, after) ==
    Append(call_log, [op |-> op, key |-> key, result |-> result, mint |-> mint,
                   after |-> after])

\* get_session_id minting on every call
get_session_id_Minting(bot_id, chat_id) ==
    LET key == <<bot_id, chat_id>>
        after == Put(active_sessions, key, uuid4)
    IN  /\ Len(call_log) < MaxCalls
        /\ active_sessions' = after
        /\ minted' = minted + 1
        /\ call_log' = Logged("get_session_id", key, after[key], TRUE, after)
        /\ UNCHANGED <<uvars, session_id, runs, tools, fn_in, fn_out, chats>>

get_session_id(bot_id, chat_id) ==
    LET key == <<bot_id, chat_id>>
        absent == key \notin DOMAIN active_sessions
        after == IF absent THEN Put(active_sessions, key, uuid4) ELSE active_sessions
    IN  /\ Len(call_log) < MaxCalls
        /\ active_sessions' = after
        /\ minted' = IF absent THEN minted + 1 ELSE minted
        /\ call_log' = Logged("get_session_id", key, after[key], absent, after)
        /\ UNCHANGED <<uvars, session_id, runs, tools, fn_in, fn_out, chats>>

\* reset_session storing the new id as the whole registry
reset_session_Clearing(bot_id, chat_id) ==
    LET key == <<bot_id, chat_id>>
        after == Put(<<>>, key, uuid4)
    IN  /\ Len(call_log) < MaxCalls
        /\ active_sessions' = after
        /\ minted' = minted + 1
        /\ call_log' = Logged("reset_session", key, uuid4, TRUE, after)
        /\ UNCHANGED <<uvars, session_id, runs, tools, fn_in, fn_out, chats>>

reset_session(bot_id, chat_id) ==
    LET key == <<bot_id, chat_id>>
        after == Put(active_sessions, key, uuid4)
    IN  /\ Len(call_log) < MaxCalls
        /\ active_sessions' = after
        /\ minted' = minted + 1
        /\ call_log' = Logged("reset_session", key, uuid4, TRUE, after)
        /\ UNCHANGED <<uvars, session_id, runs, tools, fn_in, fn_out, chats>>

SessionInit == UnitIdle /\ AuxIdle

SessionNext ==
    \/ (\E b \in Bots, c \in Chats : get_session_id(b, c))
    \/ (\E b \in Bots, c \in Chats : reset_session(b, c))

SessionSpec == SessionInit /\ [][SessionNext]_vars

(***************************************************************************)
(* ai/conversation.py: build_messages with the attachments of a send       *)
(***************************************************************************)
\* _TEXT_TYPES; a media type "type/subtype" is written <<type, subtype>>
TEXT_TYPES ==
    { <<"application", "json">>, <<"application", "xml">>,
      <<"application", "javascript">>, <<"application", "x-yaml">>,
      <<"application", "sql">>, <<"application", "x-sh">>,
      <<"application", "xhtml+xml">>, <<"application", "csv">> }

\* a classification that takes every type for text
is_text_Any(media_type) == TRUE

\* media_type.startswith(("text/",)) or media_type in _TEXT_TYPES
is_text_media_type(media_type) == media_type[1] = "text" \/ media_type \in TEXT_TYPES

\* the block appended for one attachment; data.bytes are the bytes in pieces,
\* a piece being valid UTF-8 or not, data.len their number
AttachmentBlock(att) ==
    LET b64 == [base64 |-> att.data.bytes]
        decoded == [i \in DOMAIN att.data.bytes |->
                      IF att.data.bytes[i].utf8 THEN Chr(att.data.bytes[i].b)
                      ELSE Chr("U+FFFD")]
        size_kb == [kind |-> "%.1f", s |-> "", json |-> NoJson,
                    tenths |-> (20 * att.data.len + 1024) \div 2048]
    IN  IF att.media_type[1] = "image"
        THEN [type |-> "image",
              source |-> [type |-> "base64", media_type |-> att.media_type, data |-> b64]]
        ELSE IF is_text_media_type(att.media_type)
        THEN TextBlock(<<Chr("[File: "), Chr(att.filename), Chr("]"), Chr("\n")>> \o decoded)
        ELSE TextBlock(<<Chr("[File: "), Chr(att.filename), Chr(" ("),
                         Chr(att.media_type[1]), Chr("/"), Chr(att.media_type[2]),
                         Chr(", "), size_kb,
                         Chr(" KB) - binary file, content not shown]")>>)

\* the attachments appended to the last message of role user, if there is one
AttachTo(ms, atts) ==
    LET users == {i \in DOMAIN ms : ms[i].role = "user"}
    IN  IF atts = <<>> \/ users = {} THEN ms
        ELSE LET last == CHOOSE i \in users : \A j \in users : j <= i
                 content == IF ms[last].is_str THEN <<TextBlock(ms[last].content)>>
                            ELSE ms[last].content
             IN  [ms EXCEPT ![last] =
                    ListMsg("user", content \o [k \in DOMAIN atts |-> AttachmentBlock(atts[k])])]

\* the Turns a history is made of
TurnAlphabet ==
    { Turn("user", Txt("hi"), 0, 0, "", 0), Turn("assistant", Txt("hello"), 0, 0, "", 0),
      Turn("system", Txt("note"), 0, 0, "", 0) }
    \cup { Turn("tool_use", JsonDumps("args"), 0, 0, "filesystem", id) : id \in 0..2 }
    \cup { Turn("tool_result", Txt("out"), 0, 0, "filesystem", id) : id \in 0..2 }

\* the attachment lists of a send
AttachmentLists ==
    LET File(name, mt, bytes, len) ==
            [filename |-> name, media_type |-> mt, data |-> [bytes |-> bytes, len |-> len]]
        Ok(b) == [b |-> b, utf8 |-> TRUE]
        Bad(b) == [b |-> b, utf8 |-> FALSE]
    IN  { <<>>,
          <<File("cat.png", <<"image", "png">>, <<Bad("\\x89"), Ok("PNG")>>, 2048)>>,
          <<File("notes.txt", <<"text", "plain">>, <<Ok("buy milk")>>, 8),
            File("blob.bin", <<"application", "octet-stream">>, <<Bad("\\xff"), Ok("x")>>, 100)>>,
          <<File("conf.json", <<"application", "json">>, <<Ok("{}"), Bad("\\xfe")>>, 3)>> }

BuildInit ==
    /\ UnitIdle
    /\ active_sessions = <<>> /\ minted = 0 /\ tools = <<>> /\ call_log = <<>>
    /\ fn_in \in [history : UNION {[1..n -> TurnAlphabet] : n \in 0..MaxHistory},
                  attachments : AttachmentLists]
    /\ fn_out = [done |-> FALSE, messages |-> <<>>]
    /\ units = <<>> /\ tracked = <<>> /\ jobs = {}
    /\ tool_ctx = [bot_id |-> "", chat_id |-> ""]

\* build_messages(history, current_attachments) is called
Build ==
    /\ ~fn_out.done
    /\ fn_out' = [done |-> TRUE,
                  messages |-> AttachTo(build_messages(fn_in.history), fn_in.attachments)]
    /\ UNCHANGED <<uvars, session_id, runs, active_sessions, minted, tools, call_log, fn_in,
                   chats>>

BuildSpec == BuildInit /\ [][Build]_vars

(***************************************************************************)
(* ai/handler.py: what the text-tagged loop gives the backend              *)
(***************************************************************************)
\* ai_config.system_prompt
SystemPrompt == Txt("You are a helpful bot")

\* _build_tool_system_prompt(tools): the rules, one entry per tool, the examples
build_tool_system_prompt(tl) ==
    <<Chr("\n"), Chr("=== CRITICAL: CUSTOM TOOL SYSTEM ===")>>
        \o [i \in 1..Len(tl) |-> Chr(tl[i])]
        \o <<Chr("=== END TOOL SYSTEM ===")>>

\* an earlier answer that holds one of the refusal phrases
RefusalTurn ==
    Turn("assistant", <<Chr("Sorry, "), Chr("I cannot"), Chr(" browse the web")>>, 0, 0, "", 0)

\* handle() has saved the user Turn of the message before it loads the
\* history: the history given to build_messages ends with it
AugmentInit ==
    /\ UnitIdle
    /\ active_sessions = <<>> /\ minted = 0 /\ tools = <<>> /\ call_log = <<>>
    /\ fn_in \in [history : {h \in UNION {[1..n -> TurnAlphabet \cup {RefusalTurn}] :
                                           n \in 1..MaxHistory} :
                               h[Len(h)] = Turn("user", Txt("hi"), 0, 0, "", 0)},
                  attachments : AttachmentLists,
                  names : {<<>>, ConfigTools}]
    /\ fn_out = [done |-> FALSE, messages |-> <<>>]
    /\ units = <<>> /\ tracked = <<>> /\ jobs = {}
    /\ tool_ctx = [bot_id |-> "", chat_id |-> ""]

\* a loop that rewrites the caller's messages in place
T_Augment_InPlace ==
    /\ fn_out.done /\ "system" \notin DOMAIN fn_out
    /\ LET tl == get_tools_by_names(fn_in.names)
           ms == IF tl # <<>> THEN Prepare(fn_out.messages) ELSE fn_out.messages
       IN  fn_out' =
             [done |-> TRUE, messages |-> ms,
              system |-> SystemPrompt
                            \o (IF tl # <<>> THEN build_tool_system_prompt(tl) ELSE <<>>),
              prepared |-> ms]
    /\ UNCHANGED <<uvars, session_id, runs, active_sessions, minted, tools, call_log, fn_in,
                   chats>>

\* _run_claude_code_tool_loop up to the while loop: full_system and the copy
\* of the messages the backend is given
T_Augment ==
    /\ fn_out.done /\ "system" \notin DOMAIN fn_out
    /\ LET tl == get_tools_by_names(fn_in.names)
       IN  fn_out' =
             [done |-> TRUE, messages |-> fn_out.messages,
              system |-> SystemPrompt
                            \o (IF tl # <<>> THEN build_tool_system_prompt(tl) ELSE <<>>),
              prepared |-> IF tl # <<>> THEN Prepare(fn_out.messages)
                           ELSE fn_out.messages]
    /\ UNCHANGED <<uvars, session_id, runs, active_sessions, minted, tools, call_log, fn_in,
                   chats>>

AugmentSpec == AugmentInit /\ [][Build \/ T_Augment]_vars

(***************************************************************************)
(* ai/tools/registry.py: the tool catalog                                  *)
(***************************************************************************)
\* the name lists get_tools_by_names is called with
NameLists ==
    { <<>>, <<"shell", "filesystem">>, <<"nope", "filesystem", "filesystem">>,
      <<"shell", "nope">> }

\* [self._tools[n] for n in names if n in self._tools]
tools_by_names(d, names) ==
    LET known == SelectSeq(names, LAMBDA n : n \in DOMAIN d)
    IN  [i \in 1..Len(known) |-> d[known[i]]]

\* a registration that keeps the capability a name already has
register_FirstWins(tool) ==
    LET after == IF tool.name \in DOMAIN tools THEN tools
                 ELSE Put(tools, tool.name, tool)
    IN  /\ Len(call_log) < MaxCalls
        /\ tools' = after
        /\ call_log' = Logged("register", tool.name, tool, FALSE, after)
        /\ UNCHANGED <<uvars, session_id, runs, active_sessions, minted, fn_in, fn_out, chats>>

\* self._tools[tool.name] = tool
register(tool) ==
    LET after == Put(tools, tool.name, tool)
    IN  /\ Len(call_log) < MaxCalls
        /\ tools' = after
        /\ call_log' = Logged("register", tool.name, tool, FALSE, after)
        /\ UNCHANGED <<uvars, session_id, runs, active_sessions, minted, fn_in, fn_out, chats>>

\* self._tools.get(name): the capability, or None
get(name) ==
    /\ Len(call_log) < MaxCalls
    /\ call_log' = Logged("get", name,
                          IF name \in DOMAIN tools THEN tools[name] ELSE "None",
                          FALSE, tools)
    /\ UNCHANGED <<uvars, session_id, runs, active_sessions, minted, tools, fn_in, fn_out, chats>>

GetToolsByNames(names) ==
    /\ Len(call_log) < MaxCalls
    /\ call_log' = Logged("get_tools_by_names", names, tools_by_names(tools, names),
                          FALSE, tools)
    /\ UNCHANGED <<uvars, session_id, runs, active_sessions, minted, tools, fn_in, fn_out, chats>>

CatalogNext ==
    \/ (\E n \in {"filesystem", "shell"}, v \in 1..2 : register([name |-> n, impl |-> v]))
    \/ (\E n \in {"filesystem", "shell", "nope"} : get(n))
    \/ (\E names \in NameLists : GetToolsByNames(names))

CatalogSpec == SessionInit /\ [][CatalogNext]_vars

(***************************************************************************)
(* services/scheduler.py: _run_ai_task, the callback of a scheduled job    *)
(***************************************************************************)
\* a session id that changes from run to run
SchedSessionId_PerRun(bot_id, chat_id) == <<"scheduled_", bot_id, "_", chat_id, runs>>

\* f"scheduled_{bot_id}_{chat_id}"
SchedSessionId(bot_id, chat_id) == <<"scheduled_", bot_id, "_", chat_id>>

\* the scheduler fires the job: _run_ai_task up to its first await, or to its
\* return when the bot has no adapter
K_Run(bot_id, chat_id) ==
    /\ entry = "scheduled" /\ pc = "sched_idle" /\ runs < MaxRuns
    /\ runs' = runs + 1
    /\ \/ /\ UNCHANGED <<uvars, session_id, call_log>>
       \/ /\ session_id' = SchedSessionId(bot_id, chat_id)
          /\ call_log' = Append(call_log, [op |-> "_run_ai_task",
                                          key |-> <<bot_id, chat_id>>,
                                          base |-> Len(store)])
          /\ pc' = "k_save_user" /\ idx' = 0 /\ rounds' = 0
          /\ messages' = <<>> /\ resp' = NoResp /\ batch' = <<>>
          /\ results' = <<>> /\ response_text' = <<>> /\ ret' = NoRet
          /\ sent' = <<>> /\ backend_calls' = 0 /\ tool_execs' = 0
          /\ base' = Len(store)
          /\ UNCHANGED <<kind, entry, store, cancel_event, cancel_req,
                         running_tasks, pre_set, stops>>
    /\ UNCHANGED <<active_sessions, minted, tools, fn_in, fn_out, chats>>

\* save_turn of the task prompt returns; the message list is built and the
\* backend called: run_tool_loop up to create_message, or chat
K_SaveUser ==
    /\ pc = "k_save_user"
    /\ store' = Append(store, PendingTurn)
    /\ messages' = <<StrMsg("user", TaskPrompt)>>
    /\ IF kind = "structured"
       THEN S_Head(0)
       ELSE /\ Goto("k_await_chat", 0)
            /\ backend_calls' = backend_calls + 1
    /\ UNCHANGED <<kind, entry, rounds, resp, batch, results, cancel_event,
                   cancel_req, running_tasks, sent, tool_execs, base, pre_set,
                   stops, session_id, runs, aux>>

\* chat returns a response: response_text = response.text
K_ChatReturns ==
    /\ pc = "k_await_chat"
    /\ \/ resp' = TextResponse(TaggedText(PlainShape))
       \/ \E text \in FinalTexts : resp' = TextResponse(text)
       \/ \E text \in ChatErrorTexts : resp' = ErrorResponse(text)
    /\ response_text' = resp'.text
    /\ pc' = "k_save_assistant"
    /\ UNCHANGED <<kind, entry, idx, rounds, messages, store, batch, results,
                   cancel_event, cancel_req, running_tasks, ret, sent,
                   backend_calls, tool_execs, base, pre_set, stops, session_id,
                   runs, aux>>

\* chat raises
K_ChatRaises ==
    /\ pc = "k_await_chat"
    /\ Raise("BackendError")
    /\ UNCHANGED <<kind, entry, rounds, messages, store, resp, batch, results,
                   cancel_event, cancel_req, running_tasks, sent, backend_calls,
                   tool_execs, base, pre_set, stops, session_id, runs, aux>>

\* save_turn of the assistant record returns
K_SaveAssistant ==
    /\ pc = "k_save_assistant"
    /\ store' = Append(store, PendingTurn)
    /\ Goto("k_send", 1)
    /\ UNCHANGED <<kind, entry, rounds, messages, resp, batch, results,
                   cancel_event, cancel_req, running_tasks, sent, backend_calls,
                   tool_execs, base, pre_set, stops, session_id, runs, aux>>

\* `if response_text:` and the sending of the chunks: adapter.send_message
\* returns, or raises
K_Send ==
    /\ pc = "k_send"
    /\ IF response_text = <<>>
       THEN pc' = "sched_idle" /\ UNCHANGED <<sent, ret, response_text, idx>>
       ELSE \/ /\ sent' = Append(sent, response_text)
               /\ pc' = "sched_idle"
               /\ UNCHANGED <<ret, response_text, idx>>
            \/ /\ Raise("DeliveryError")
               /\ UNCHANGED sent
    /\ UNCHANGED <<kind, entry, rounds, messages, store, resp, batch, results,
                   cancel_event, cancel_req, running_tasks, backend_calls,
                   tool_execs, base, pre_set, stops, session_id, runs, aux>>

\* the except branch: adapter.send_message of the error text returns, or
\* raises and `except Exception: pass` drops the exception
K_Error ==
    /\ pc = "k_error"
    /\ sent' \in {Append(sent, response_text), sent}
    /\ pc' = "sched_idle"
    /\ UNCHANGED <<kind, entry, idx, rounds, messages, store, resp, batch,
                   results, cancel_event, cancel_req, running_tasks,
                   response_text, ret, backend_calls, tool_execs, base, pre_set,
                   stops, session_id, runs, aux>>

SchedInit ==
    /\ AuxIdle
    /\ kind \in {"structured", "text"}    \* the backend of the bot's ai_client
    /\ entry = "scheduled" /\ pc = "sched_idle" /\ idx = 0
    /\ rounds = 0 /\ messages = <<>> /\ store = <<>> /\ resp = NoResp
    /\ batch = <<>> /\ results = <<>> /\ cancel_event = FALSE
    /\ cancel_req = FALSE /\ running_tasks = FALSE /\ response_text = <<>>
    /\ ret = NoRet /\ sent = <<>> /\ backend_calls = 0 /\ tool_execs = 0
    /\ base = 0 /\ pre_set = FALSE /\ stops = 0
    /\ session_id = <<>> /\ runs = 0

SchedNext ==
    \/ (\E c \in Chats : K_Run("b1", c))
    \/ K_SaveUser \/ K_ChatReturns \/ K_ChatRaises \/ K_SaveAssistant
    \/ K_Send \/ K_Error
    \/ S_ModelReturns \/ S_ModelRaises \/ S_SaveToolUse
    \/ (\E i \in 1..2 : S_ExecuteOneStart(i))
    \/ (\E i \in 1..2 : S_ExecuteOneFinish(i))
    \/ S_GatherReturns \/ S_SaveResult \/ S_SaveFinal
    \/ SaveTurnRaises

SchedSpec == SchedInit /\ [][SchedNext]_vars

(***************************************************************************)
(* ai/handler.py: handle() from the inbound message to the message list    *)
(* of the first backend call, over sessions of any stored length           *)
(***************************************************************************)
\* the rows a session holds after n Turns of question and answer
StoredTurns(n) ==
    [i \in 1..n |-> IF i % 2 = 1 THEN Turn("user", Txt("earlier question"), 0, 0, "", 0)
                    ELSE Turn("assistant", Txt("earlier answer"), 0, 0, "", 0)]

HistoryInit ==
    /\ UnitIdle
    /\ active_sessions = <<>> /\ minted = 0 /\ tools = <<>> /\ call_log = <<>>
    /\ fn_in \in [stored : 0..MaxStored, text : {"what's 2+2?", "and 3+3?"}]
    /\ fn_out = [pc |-> "idle", saved |-> <<>>, messages |-> <<>>]
    /\ units = <<>> /\ tracked = <<>> /\ jobs = {}
    /\ tool_ctx = [bot_id |-> "", chat_id |-> ""]

\* handle(): save_turn of the user Turn, get_session_history, build_messages
H_Handle ==
    /\ fn_out.pc = "idle"
    /\ LET user_turn == Turn("user", Txt(fn_in.text), 0, 0, "", 0)
           rows == Append(StoredTurns(fn_in.stored), user_turn)
       IN  fn_out' = [pc |-> "task_created", saved |-> <<user_turn>>,
                      messages |-> build_messages(get_session_history(rows))]
    /\ UNCHANGED <<uvars, session_id, runs, active_sessions, minted, tools, call_log, fn_in,
                   chats>>

HistorySpec == HistoryInit /\ [][H_Handle]_vars

(***************************************************************************)
(* ai/handler.py: _split_message as a function of its arguments            *)
(***************************************************************************)
\* texts of one-character tokens, letters and newlines, and a max_length > 0
SplitInit ==
    /\ UnitIdle
    /\ active_sessions = <<>> /\ minted = 0 /\ tools = <<>> /\ call_log = <<>>
    /\ fn_in \in [text : UNION {[1..n -> {Chr("a"), Chr("\n")}] : n \in 0..MaxText},
                  max_length : 1..MaxChunk]
    /\ fn_out = [done |-> FALSE, chunks |-> <<>>]
    /\ units = <<>> /\ tracked = <<>> /\ jobs = {}
    /\ tool_ctx = [bot_id |-> "", chat_id |-> ""]

\* _split_message(text, max_length) is called
Split ==
    /\ ~fn_out.done
    /\ fn_out' = [done |-> TRUE, chunks |-> split_message(fn_in.text, fn_in.max_length)]
    /\ UNCHANGED <<uvars, session_id, runs, active_sessions, minted, tools, call_log, fn_in,
                   chats>>

SplitSpec == SplitInit /\ [][Split]_vars

(***************************************************************************)
(* ai/handler.py: the temporary files of a processing unit                 *)
(***************************************************************************)
\* a processing unit is created for a message with n attachments; the
\* state of the unit and of the temporary directory is kept in fn_out
TempInit ==
    /\ UnitIdle
    /\ active_sessions = <<>> /\ minted = 0 /\ tools = <<>> /\ call_log = <<>>
    /\ fn_in \in [attachments : 0..MaxFiles, kind : {"structured", "text"},
                  cancel_event : BOOLEAN]
    /\ fn_out = [pc |-> "created", img_refs |-> <<>>, disk |-> {}, how |-> "none"]
    /\ units = <<>> /\ tracked = <<>> /\ jobs = {}
    /\ tool_ctx = [bot_id |-> "", chat_id |-> ""]

\* _process_and_respond runs up to its first await: the early return, and for
\* the text-tagged backend one NamedTemporaryFile(delete=False) per
\* attachment, written, closed and recorded in img_refs. The file of
\* attachment k exists once NamedTemporaryFile has returned; its write may
\* raise OSError, as may NamedTemporaryFile itself.
P_Start ==
    /\ fn_out.pc = "created"
    /\ IF fn_in.cancel_event
       THEN fn_out' = [fn_out EXCEPT !.pc = "ended", !.how = "return"]
       ELSE IF fn_in.kind = "structured"
       THEN fn_out' = [fn_out EXCEPT !.pc = "loop"]
       ELSE \/ fn_out' = [fn_out EXCEPT !.pc = "loop",
                                        !.img_refs = [k \in 1..fn_in.attachments |-> k],
                                        !.disk = 1..fn_in.attachments]
            \/ \E k \in 1..fn_in.attachments, written \in BOOLEAN :
                 fn_out' = [fn_out EXCEPT
                              !.pc = "send", !.how = "OSError",
                              !.img_refs = [j \in 1..(k - 1) |-> j],
                              !.disk = IF written THEN 1..k ELSE 1..(k - 1)]
    /\ UNCHANGED <<uvars, session_id, runs, active_sessions, minted, tools, call_log, fn_in,
                   chats>>

\* the awaited loop ends: with a final answer, a sentinel, the task's
\* cancellation or an exception; the finally clause unlinks every path of
\* img_refs (os.unlink of a file the unit has created removes it)
P_LoopEnds ==
    /\ fn_out.pc = "loop"
    /\ \E how \in {"final", "limit", "cancelled", "CancelledError", "Exception"} :
         fn_out' = [fn_out EXCEPT
                      !.pc = IF how = "CancelledError" THEN "ended" ELSE "send",
                      !.how = how,
                      !.disk = IF fn_in.kind = "text"
                               THEN fn_out.disk \ {fn_out.img_refs[j] :
                                                     j \in 1..Len(fn_out.img_refs)}
                               ELSE fn_out.disk]
    /\ UNCHANGED <<uvars, session_id, runs, active_sessions, minted, tools, call_log, fn_in,
                   chats>>

\* the response text is sent, or the task is cancelled while sending
P_Send ==
    /\ fn_out.pc = "send"
    /\ fn_out' = [fn_out EXCEPT !.pc = "ended"]
    /\ UNCHANGED <<uvars, session_id, runs, active_sessions, minted, tools, call_log, fn_in,
                   chats>>

TempSpec == TempInit /\ [][P_Start \/ P_LoopEnds \/ P_Send]_vars

(***************************************************************************)
(* ai/handler.py, ai/tools/scheduler.py: the units of many chats and the   *)
(* scheduler tool they share                                               *)
(***************************************************************************)
\* the units that have not ended
InFlight == {u \in DOMAIN units : units[u].st # "done"}

\* a handle() that waits for the unit of the chat to end
M_Handle_Waiting(chat_id) ==
    /\ Len(units) < MaxUnits
    /\ \A u \in InFlight : units[u].chat_id # chat_id
    /\ units' = Append(units, [chat_id |-> chat_id, st |-> "created",
                               cancel_event |-> FALSE, called |-> FALSE])
    /\ tracked' = Put(tracked, chat_id, Len(units) + 1)
    /\ UNCHANGED <<uvars, session_id, runs, active_sessions, minted, tools, call_log,
                   fn_in, fn_out, tool_ctx, jobs>>

\* handle() of a message that is no command: cancel_event = asyncio.Event(),
\* task = asyncio.create_task(...), self._running_tasks[chat_id] = (task,
\* cancel_event), add_done_callback; handle returns
M_Handle(chat_id) ==
    /\ Len(units) < MaxUnits
    /\ units' = Append(units, [chat_id |-> chat_id, st |-> "created",
                               cancel_event |-> FALSE, called |-> FALSE])
    /\ tracked' = Put(tracked, chat_id, Len(units) + 1)
    /\ UNCHANGED <<uvars, session_id, runs, active_sessions, minted, tools, call_log,
                   fn_in, fn_out, tool_ctx, jobs>>

\* the task starts: _process_and_respond binds the scheduler tool to its
\* chat and runs up to the backend call
M_Begin(u) ==
    /\ u \in DOMAIN units /\ units[u].st = "created" /\ ~units[u].cancel_event
    /\ tool_ctx' = [bot_id |-> "b1", chat_id |-> units[u].chat_id]
    /\ units' = [units EXCEPT ![u].st = "awaiting"]
    /\ UNCHANGED <<uvars, session_id, runs, active_sessions, minted, tools, call_log,
                   fn_in, fn_out, tracked, jobs>>

\* SchedulerTool.execute(action=...) with the context the tool holds. The
\* tool calls add_ai_cron_job, add_ai_one_shot_job and remove_job of the
\* service, which are coroutine functions, without await: the call makes a
\* coroutine object that never runs, so no job is added or removed; the
\* object is formatted into the success text of add_cron and add_once, and
\* is true in `if removed`. call_log[by] is the execution made by `by`, a
\* unit or the run of a scheduled task
Execute(by, action) ==
    [by |-> by, action |-> action,
     bot_id |-> tool_ctx.bot_id, chat_id |-> tool_ctx.chat_id,
     existed |-> "j1" \in {j.id : j \in jobs},
     text |-> IF action = "remove" THEN "Job j1 removed successfully."
              ELSE IF tool_ctx.bot_id = "" \/ tool_ctx.chat_id = ""
              THEN "Error: no conversation context available"
              ELSE IF action = "add_cron" THEN "AI cron job created"
              ELSE "AI one-shot job created"]

\* the backend asks the unit for the scheduler tool: SchedulerTool.execute
\* with action add_cron, add_once or remove
M_SchedulerCall(u) ==
    /\ u \in DOMAIN units /\ units[u].st = "awaiting"
    /\ ~units[u].cancel_event /\ ~units[u].called
    /\ units' = [units EXCEPT ![u].called = TRUE]
    /\ \E action \in {"add_cron", "add_once", "remove"} :
          call_log' = Put(call_log, <<"unit", u>>, Execute(<<"unit", u>>, action))
    /\ UNCHANGED <<uvars, session_id, runs, active_sessions, minted, tools, fn_in,
                   fn_out, tracked, tool_ctx, jobs>>

\* the task ends (it has answered, or it was cancelled) and _on_task_done
\* runs: self._running_tasks.pop(chat_id, None)
M_Finish(u) ==
    /\ u \in DOMAIN units
    /\ units[u].st = "awaiting" \/ (units[u].st = "created" /\ units[u].cancel_event)
    /\ units' = [units EXCEPT ![u].st = "done"]
    /\ tracked' = [c \in DOMAIN tracked \ {units[u].chat_id} |-> tracked[c]]
    /\ UNCHANGED <<uvars, session_id, runs, active_sessions, minted, tools, call_log,
                   fn_in, fn_out, tool_ctx, jobs>>

\* handle() of "/stop": the tracked unit of the chat, if any, gets its event
\* set and its task cancelled
M_Stop(chat_id) ==
    /\ units' = IF chat_id \in DOMAIN tracked
                THEN [units EXCEPT ![tracked[chat_id]].cancel_event = TRUE]
                ELSE units
    /\ UNCHANGED <<uvars, session_id, runs, active_sessions, minted, tools, call_log,
                   fn_in, fn_out, tracked, tool_ctx, jobs>>

\* a run of a scheduled task calls the scheduler tool: the run binds
\* nothing (run_tool_loop is called with the tools of the registry)
M_ScheduledCall ==
    /\ tool_ctx.bot_id # "" /\ tool_ctx.chat_id # ""
    /\ <<"scheduled", 0>> \notin DOMAIN call_log
    /\ call_log' = Put(call_log, <<"scheduled", 0>>, Execute(<<"scheduled", 0>>, "add_cron"))
    /\ UNCHANGED <<uvars, session_id, runs, active_sessions, minted, tools, fn_in,
                   fn_out, units, tracked, tool_ctx, jobs>>

ChatsNext ==
    \/ (\E c \in Chats : M_Handle(c))
    \/ (\E u \in 1..MaxUnits : M_Begin(u))
    \/ (\E u \in 1..MaxUnits : M_SchedulerCall(u))
    \/ (\E u \in 1..MaxUnits : M_Finish(u))
    \/ (\E c \in Chats : M_Stop(c))
    \/ M_ScheduledCall

ChatsSpec == SessionInit /\ [][ChatsNext]_vars

(***************************************************************************)
(* ai/handler.py, core/session.py: /reset among the messages of one chat   *)
(* of one bot. fn_out is the table conversation_turns; a row carries, for  *)
(* the properties, the unit that saved it, the number of resets of its     *)
(* chat before the save and the chat's session id at the save.             *)
(***************************************************************************)
\* the resets of the chat so far
Resets(chat_id) ==
    Cardinality({i \in 1..Len(call_log) :
                    call_log[i].op = "reset_session" /\ call_log[i].key = <<"b1", chat_id>>})

\* the row save_turn inserts for unit u
Row(role, sid, chat_id, u) ==
    [role |-> role, session_id |-> sid, chat_id |-> chat_id, by |-> u,
     resets |-> Resets(chat_id), current |-> active_sessions[<<"b1", chat_id>>]]

\* handle() of a message that is no command: get_session_id, save_turn of
\* the user Turn, get_session_history of the session, create_task with the
\* session id and the list
R_Handle(chat_id) ==
    LET key == <<"b1", chat_id>>
        absent == key \notin DOMAIN active_sessions
        sid == IF absent THEN uuid4 ELSE active_sessions[key]
        u == Len(units) + 1
    IN  /\ Len(units) < MaxUnits
        /\ active_sessions' = IF absent THEN Put(active_sessions, key, uuid4)
                              ELSE active_sessions
        /\ minted' = IF absent THEN minted + 1 ELSE minted
        /\ fn_out' = Append(fn_out, [role |-> "user", session_id |-> sid,
                                     chat_id |-> chat_id, by |-> u,
                                     resets |-> Resets(chat_id), current |-> sid])
        /\ LET InSession(r) == r.session_id = sid
           IN  units' = Append(units,
                   [chat_id |-> chat_id, session_id |-> sid, st |-> "created",
                    resets |-> Resets(chat_id),
                    history |-> get_session_history(SelectSeq(fn_out', InSession))])
        /\ UNCHANGED <<uvars, session_id, runs, tools, call_log, fn_in, tracked, tool_ctx,
                       jobs>>

\* the loop of unit u saves a Turn under the session id it was created
\* with (a tool_use Turn, or the assistant Turn it ends with)
R_Save(u) ==
    /\ u \in DOMAIN units /\ units[u].st # "done"
    /\ \E role \in {"tool_use", "assistant"} :
          /\ role = "tool_use" => units[u].st = "created"
          /\ fn_out' = Append(fn_out, Row(role, units[u].session_id, units[u].chat_id, u))
          /\ units' = [units EXCEPT ![u].st = IF role = "assistant" THEN "done" ELSE role]
    /\ UNCHANGED <<uvars, session_id, runs, active_sessions, minted, tools, call_log,
                   fn_in, tracked, tool_ctx, jobs>>

\* handle() of "/reset" is reset_session
ResetSpec ==
    SessionInit /\ [][
        \/ R_Handle("c1")
        \/ (\E u \in 1..MaxUnits : R_Save(u))
        \/ reset_session("b1", "c1")
    ]_vars

(***************************************************************************)
(* ai/tools/base.py, ai/tools/browser.py, ai/handler.py: pending images.   *)
(* fn_out is BrowserTool._pending_images of the one registered instance,   *)
(* call_log the messages with attachments handed to the adapter.           *)
(***************************************************************************)
\* the backend asks the unit for a screenshot: BrowserTool.execute with
\* action "screenshot" runs add_pending_image
M_Screenshot(u) ==
    /\ u \in DOMAIN units /\ units[u].st = "awaiting"
    /\ ~units[u].cancel_event /\ ~units[u].called
    /\ units' = [units EXCEPT ![u].called = TRUE]
    /\ fn_out' = Append(fn_out, [filename |-> "screenshot.png", by |-> u])
    /\ UNCHANGED <<uvars, session_id, runs, active_sessions, minted, tools, call_log,
                   fn_in, tracked, tool_ctx, jobs>>

\* the loop of the unit returns (an answer, a sentinel) or raises an
\* Exception: take_pending_images of every tool, the response is sent, the
\* images are sent to the unit's chat_id; _on_task_done
M_Respond(u) ==
    /\ u \in DOMAIN units /\ units[u].st = "awaiting"
    /\ units' = [units EXCEPT ![u].st = "done"]
    /\ fn_out' = <<>>
    /\ call_log' = IF fn_out = <<>> THEN call_log
                   ELSE Append(call_log, [chat_id |-> units[u].chat_id, unit |-> u,
                                          attachments |-> fn_out])
    /\ tracked' = [c \in DOMAIN tracked \ {units[u].chat_id} |-> tracked[c]]
    /\ UNCHANGED <<uvars, session_id, runs, active_sessions, minted, tools, fn_in,
                   tool_ctx, jobs>>

\* the task cancelled by /stop ends with CancelledError: return, nothing is
\* taken and nothing is sent; _on_task_done
M_Cancelled(u) ==
    /\ u \in DOMAIN units /\ units[u].st \in {"created", "awaiting"}
    /\ units[u].cancel_event
    /\ units' = [units EXCEPT ![u].st = "done"]
    /\ tracked' = [c \in DOMAIN tracked \ {units[u].chat_id} |-> tracked[c]]
    /\ UNCHANGED <<uvars, session_id, runs, active_sessions, minted, tools, call_log,
                   fn_in, fn_out, tool_ctx, jobs>>

MediaSpec ==
    SessionInit /\ [][
        \/ (\E c \in Chats : M_Handle(c))
        \/ (\E u \in 1..MaxUnits : M_Begin(u))
        \/ (\E u \in 1..MaxUnits : M_Screenshot(u))
        \/ (\E u \in 1..MaxUnits : M_Respond(u))
        \/ (\E u \in 1..MaxUnits : M_Cancelled(u))
        \/ (\E c \in Chats : M_Stop(c))
    ]_vars

(***************************************************************************)
(* Properties                                                              *)
(***************************************************************************)
\* the round ceiling of the loop that runs
MaxRounds == IF kind = "structured" THEN MAX_TOOL_ROUNDS ELSE CLI_MAX_TOOL_ROUNDS

\* the invocation has returned v
Returned(v) == ret.how = "return" /\ ret.value = v

\* the invocation has ended
Ended == ret.how # "none"

\* the text holds the token s
Contains(text, s) == \E i \in 1..Len(text) : text[i] = Chr(s)

\* the response asks for at least one tool call
HasToolCalls(r) == ToolUseBlocks(r.content) # <<>> \/ FindAll(r.text) # <<>>

\* the last element of a non-empty sequence
Last(q) == q[Len(q)]

\* C1: round-limit law.  In both loops the backend is called at most 10
\* times in one invocation (an 11th call never happens); once 10 rounds of
\* tool calls have completed the invocation has returned
\* "[Tool execution limit reached]" after exactly 10 backend calls; the
\* sentinel is returned in no other case, and an invocation that returns while
\* its last response asks for tools returns the cancellation sentinel.
C1_RoundLimit ==
    /\ MaxRounds = 10
    /\ backend_calls <= 10
    /\ rounds = MaxRounds => Returned(LIMIT) /\ backend_calls = 10
    /\ Returned(LIMIT) => rounds = MaxRounds
    /\ (ret.how = "return" /\ HasToolCalls(resp)) => Returned(CANCELLED)

C1_Witness ==
    /\ kind = "text" /\ entry = "handle" /\ ~cancel_event
    /\ Returned(LIMIT) /\ backend_calls = 10 /\ rounds = 10

\* C2: cancellation law.  In both loops, when the cancel event is already set
\* at the moment the loop is entered, the invocation makes no backend call,
\* executes no tool, persists no Turn and returns the cancellation sentinel.
C2_CancelledAtEntry ==
    pre_set =>
        /\ backend_calls = 0
        /\ tool_execs = 0
        /\ Len(store) = base
        /\ Returned(CANCELLED)

C2_Witness ==
    /\ kind = "structured" /\ pre_set /\ pc = "done" /\ Returned(CANCELLED)

\* the names a response asks for that are not registered, by call index
UnknownCalls(r) ==
    IF kind = "structured"
    THEN {i \in 1..Len(ToolUseBlocks(r.content)) :
            ~Registered(ToolUseBlocks(r.content)[i].name)}
    ELSE {i \in 1..Len(FindAll(r.text)) :
            FindAll(r.text)[i].ok /\ ~Registered(FindAll(r.text)[i].value.tool)}

\* the tool name of call i of response r
CallName(r, i) ==
    IF kind = "structured" THEN ToolUseBlocks(r.content)[i].name
    ELSE FindAll(r.text)[i].value.tool

\* the result string of call i of the round under way
ResultText(i) == IF kind = "structured" THEN results[i].text ELSE results[i]

\* this step completes a round: the result message is appended
RoundCompletes == rounds' = rounds + 1

\* after a completed round the loop issues the next backend call, unless the
\* ceiling is reached or the cancel event is set
GoesOn ==
    (rounds' < MaxRounds /\ ~cancel_event) =>
        /\ pc' \in {"s_await_model", "t_await_chat"}
        /\ backend_calls' = backend_calls + 1
        /\ ret' = NoRet

\* a round that is under way ends the invocation only by cancellation or by
\* a failure of save_turn
RoundNotAborted ==
    Ended => Returned(CANCELLED) \/ ret.exc \in {"CancelledError", "PersistenceError"}

\* C3: unknown tool.  In both loops a call of a name that is not registered
\* gets a result string that contains the name (a call reached after the
\* cancel event was set gets "[Cancelled]"); the string is part of the result
\* message appended when the round completes; the round is not aborted and
\* the loop then issues the next backend call.
C3_UnknownTool ==
    /\ [](UnknownCalls(resp) # {} => RoundNotAborted)
    /\ [][(RoundCompletes /\ UnknownCalls(resp) # {}) =>
            /\ \A i \in UnknownCalls(resp) :
                  /\ \/ Contains(ResultText(i), CallName(resp, i))
                     \/ cancel_event /\ ResultText(i) = TOOL_CANCELLED
                  /\ IF kind = "structured"
                     THEN /\ Last(messages').content[i].tool_use_id
                                = ToolUseBlocks(resp.content)[i].id
                          /\ Last(messages').content[i].content = ResultText(i)
                     ELSE Contains(Last(messages').content, CallName(resp, i))
            /\ GoesOn]_vars

C3_Witness ==
    /\ kind = "structured" /\ rounds = 1 /\ pc = "s_await_model" /\ backend_calls = 2
    /\ \E i \in 1..Len(Last(messages).content) :
          Last(messages).content[i].content = UnknownToolError("nope")

\* tool_call_ids of the Turns of a role persisted since the message arrived
Ids(role) ==
    {store[i].tool_call_id : i \in {j \in (base + 1)..Len(store) : store[j].role = role}}

\* the tool_use Turns without a tool_result Turn of the same tool_call_id
Dangling == Ids("tool_use") \ Ids("tool_result")

\* C4: structured loop.  While a backend call is in flight every tool_use Turn
\* persisted by the invocation has a persisted tool_result Turn with the same
\* tool_call_id; once the invocation has ended a tool_use Turn without a result
\* exists only if it ended by cancellation; persisted Turns are never removed.
C4_ToolUsePaired ==
    kind = "structured" =>
        /\ pc = "s_await_model" => Dangling = {}
        /\ (Ended /\ Dangling # {}) =>
              Returned(CANCELLED) \/ ret.exc = "CancelledError"

\* the Turns persisted since the message arrived that have the role
TurnsOf(role) == {i \in (base + 1)..Len(store) : store[i].role = role}

\* C5: structured loop, FINAL.  A response without tool_use block leads only
\* to the save of one assistant Turn and the return of the text; when the
\* loop has returned the text, the last persisted Turn is an assistant Turn
\* with that text and the token counts of the response, it is the only
\* assistant Turn of the invocation, and no backend call follows the end of
\* an invocation.
C5_Final ==
    /\ [](kind = "structured" /\ resp # NoResp /\ ToolUseBlocks(resp.content) = <<>> =>
            /\ pc = "s_save_final" \/ Ended
            /\ Ended => \/ Returned(FinalText(resp.content))
                        \/ ret.exc \in {"CancelledError", "PersistenceError"}
            /\ Returned(FinalText(resp.content)) =>
                  /\ Len(store) > base
                  /\ Last(store) = Turn("assistant", ret.value, resp.input_tokens,
                                        resp.output_tokens, "", 0)
                  /\ Cardinality(TurnsOf("assistant")) = 1
                  /\ backend_calls = rounds + 1)
    /\ [][Ended => backend_calls' = backend_calls]_vars

\* history [user, assistant, user], first response "4": one backend call, one
\* new Turn "4", return value "4"
C5_Witness ==
    /\ kind = "structured" /\ entry = "handle"
    /\ Returned(Txt("4")) /\ backend_calls = 1
    /\ Len(store) = 4
    /\ <<store[1].role, store[2].role, store[3].role>> = <<"user", "assistant", "user">>
    /\ store[4] = Turn("assistant", Txt("4"), 7, 3, "", 0)

\* the handler ran the text-tagged loop, whose first response held exactly one
\* tag and whose second response held none, and the loop returned its answer
OneTagScenario ==
    /\ kind = "text" /\ entry = "handle"
    /\ rounds = 1 /\ ret.how = "return" /\ ret.value # CANCELLED
    /\ FindAll(resp.text) = <<>>
    /\ Len(store) >= base + 2
    /\ store[base + 2].role = "assistant"
    /\ Len(FindAll(store[base + 2].content)) = 1

\* v is t without its leading and trailing whitespace
IsStripOf(v, t) ==
    /\ \E i \in 1..(Len(t) + 1), j \in 0..Len(t) :
          /\ v = SubSeq(t, i, j)
          /\ \A k \in 1..Len(t) : (k < i \/ k > j) => IsSpace(t[k])
    /\ v # <<>> => ~IsSpace(v[1]) /\ ~IsSpace(Last(v))

\* the only tag of the first response names a registered tool in JSON that parses
TagExecutable ==
    LET call == FindAll(store[base + 2].content)[1]
    IN  call.ok /\ Registered(call.value.tool)

\* C6 as stated: one tag, then plain text: the engine returns the text of the
\* second response after exactly 2 backend calls and exactly one tool
\* execution, and 4 new Turns are persisted.
C6_AsStated ==
    OneTagScenario =>
        /\ ret.value = resp.text
        /\ backend_calls = 2
        /\ tool_execs = 1
        /\ Len(store) = base + 4

\* C6: one tag, then plain text: the engine returns the text of the second
\* response without its surrounding whitespace after exactly 2 backend calls;
\* the tool is executed once when the tag holds JSON that parses and names a
\* registered tool, and not at all otherwise; 4 new Turns are persisted: the
\* user message, the tagged reply, the results as a user Turn, the answer.
C6_OneTagScenario ==
    OneTagScenario =>
        /\ IsStripOf(ret.value, resp.text)
        /\ backend_calls = 2
        /\ tool_execs = IF TagExecutable THEN 1 ELSE 0
        /\ Len(store) = base + 4
        /\ [i \in 1..4 |-> store[base + i].role]
              = <<"user", "assistant", "user", "assistant">>
        /\ store[base + 4].content = ret.value

C6_Witness ==
    /\ OneTagScenario /\ TagExecutable
    /\ Returned(Txt("Found 2 files")) /\ backend_calls = 2 /\ tool_execs = 1
    /\ store[base + 3].content = ToolResultText("filesystem", ToolOutput)
    /\ Len(store) = base + 4

\* the number of tool calls of a response
NumCalls(r) ==
    IF kind = "structured" THEN Len(ToolUseBlocks(r.content)) ELSE Len(FindAll(r.text))

\* call i of the response can be executed: it names a registered tool (in JSON
\* that parses)
Executable(r, i) ==
    IF kind = "structured" THEN Registered(ToolUseBlocks(r.content)[i].name)
    ELSE FindAll(r.text)[i].ok /\ Registered(FindAll(r.text)[i].value.tool)

\* the tag of call i holds malformed JSON
Malformed(r, i) == kind = "text" /\ ~FindAll(r.text)[i].ok

\* the result string of an executed call whose tool returned
ExecSuccess(r, i) ==
    IF kind = "structured" THEN ToolOutput
    ELSE ToolResultText(CallName(r, i), ToolOutput)

\* the result string of an executed call whose tool raised
ExecFailure(r, i) ==
    IF kind = "structured" THEN ExecError(CallName(r, i), "boom")
    ELSE ToolErrorText("boom")

\* a call of the round under way has failed
FailureSeen ==
    \/ /\ kind = "structured"
       /\ \E i \in DOMAIN batch : batch[i].st = "done" /\ batch[i].text = ExecFailure(resp, i)
    \/ /\ kind = "text"
       /\ \E i \in DOMAIN results :
             results[i] \in {ToolErrorText("boom"), ToolErrorText("JSONDecodeError")}

\* C7: a tool failure never aborts a round or the loop.  In both loops, once
\* a tool has raised an ordinary exception or a tag has held malformed JSON,
\* the invocation ends within that round only by cancellation or by a failure
\* of save_turn; when the round completes without the cancel event set, every
\* call has its own result, a malformed tag has the error string and nothing
\* else has it, every executable call of the round was executed (its result is
\* the output or the error string of its own execution), and the loop issues
\* the next backend call.
C7_ToolFailure ==
    /\ [](FailureSeen => RoundNotAborted)
    /\ [][(RoundCompletes /\ ~cancel_event) =>
            /\ Len(results) = NumCalls(resp)
            /\ \A i \in 1..NumCalls(resp) :
                  /\ Executable(resp, i) =>
                        ResultText(i) \in {ExecSuccess(resp, i), ExecFailure(resp, i)}
                  /\ Malformed(resp, i) <=> ResultText(i) = ToolErrorText("JSONDecodeError")
            /\ rounds = 0 =>
                  tool_execs = Cardinality({i \in 1..NumCalls(resp) : Executable(resp, i)})
            /\ GoesOn]_vars

C7_Witness ==
    /\ kind = "text" /\ rounds = 1 /\ pc = "t_await_chat"
    /\ backend_calls = 2 /\ tool_execs = 1
    /\ Last(messages).content =
          Join(<<Chr("\n"), Chr("\n")>>,
               <<ToolErrorText("JSONDecodeError"),
                 ToolResultText("filesystem", ToolOutput)>>)

\* a backend call of the invocation has failed
BackendFailed == ret.exc = "BackendError" \/ resp.error

\* C8 as stated: a backend failure makes the loop return a text; no exception
\* of the backend escapes a loop.
C8_AsStated == ret.exc # "BackendError"

\* C8: backend failure.  A failure that chat() of the text-tagged backend
\* catches comes back as a text describing it, which the text-tagged loop
\* saves and returns as its answer; every other backend failure escapes the
\* loop as an exception, which _process_and_respond turns into the text
\* "An error occurred: ..."; in both loops no backend call follows the failure.
C8_BackendFailure ==
    /\ [](resp.error =>
            /\ kind = "text"
            /\ pc = "t_save_final" \/ Ended
            /\ ret.how = "return" =>
                  Returned(CANCELLED) \/ IsStripOf(ret.value, resp.text))
    /\ [](ret.exc = "BackendError" =>
            /\ ret.how = "raise"
            /\ entry = "handle" => response_text = ErrorText("BackendError"))
    /\ [][BackendFailed => backend_calls' = backend_calls]_vars

C8_Witness ==
    /\ kind = "structured" /\ entry = "handle" /\ ret.exc = "BackendError"
    /\ sent = <<ErrorText("BackendError")>>

\* C9 as stated: a processing unit started by handle() does not finish before
\* an outbound text message has reached the chat.
C9_AlwaysAnswered == (entry = "handle" /\ pc = "finished") => sent # <<>>

\* C10 as stated: a failure of save_turn does not end a loop invocation.
C10_SaveFailureTolerated == ret.exc # "PersistenceError"

\* call i of the log is a call of op on key
IsCall(i, op, key) == call_log[i].op = op /\ call_log[i].key = key

\* the last call up to call i that minted an id for key, 0 if none did
LastMint(i, key) ==
    LET js == {j \in 1..i : call_log[j].key = key /\ call_log[j].mint}
    IN  IF js = {} THEN 0 ELSE CHOOSE j \in js : \A m \in js : m <= j

\* C11: after any sequence of get_session_id and reset_session calls, a
\* get_session_id call returns the id minted by the most recent minting call
\* for its key (itself, when it found the key absent); two consecutive
\* get_session_id calls for one key return the same id; and the registry holds
\* for each key that was ever asked for exactly one id, the one last minted
\* for it.
C11_SessionLookup ==
    /\ \A i \in 1..Len(call_log) :
           call_log[i].op = "get_session_id" =>
               /\ LastMint(i, call_log[i].key) # 0
               /\ call_log[i].result = call_log[LastMint(i, call_log[i].key)].result
    /\ \A i \in 1..(Len(call_log) - 1) :
           (call_log[i].op = "get_session_id" /\ call_log[i + 1].op = "get_session_id"
              /\ call_log[i].key = call_log[i + 1].key)
           => call_log[i + 1].result = call_log[i].result
    /\ DOMAIN active_sessions = {call_log[i].key : i \in 1..Len(call_log)}
    /\ \A key \in DOMAIN active_sessions :
           active_sessions[key] = call_log[LastMint(Len(call_log), key)].result

\* a first call for a key, a reset of it, two lookups of it
C11_Witness ==
    /\ Len(call_log) = 4
    /\ IsCall(1, "get_session_id", <<"b1", "c1">>)
    /\ IsCall(2, "reset_session", <<"b1", "c1">>)
    /\ IsCall(3, "get_session_id", <<"b1", "c1">>)
    /\ IsCall(4, "get_session_id", <<"b1", "c1">>)
    /\ call_log[4].result = call_log[2].result
    /\ call_log[1].result # call_log[2].result

\* the registry call i of the log found
Before(i) == IF i = 1 THEN <<>> ELSE call_log[i - 1].after

\* the ids returned before call i
Earlier(i) == {call_log[j].result : j \in 1..(i - 1)}

\* C12: reset_session(bot, chat) can be called in every registry state,
\* whether the key is present or absent; it stores for the key an id no
\* earlier call returned, which it returns and which a get_session_id that
\* follows returns too; and it leaves the id of every other key as it was.
C12_ResetFrame ==
    /\ Len(call_log) < MaxCalls
           => \A b \in Bots, c \in Chats : ENABLED reset_session(b, c)
    /\ \A i \in 1..Len(call_log) :
           call_log[i].op = "reset_session" =>
               LET key == call_log[i].key
                   old == Before(i)
                   new == call_log[i].after
               IN  /\ DOMAIN new = DOMAIN old \cup {key}
                   /\ new[key] = call_log[i].result
                   /\ call_log[i].result \notin Earlier(i)
                   /\ \A o \in DOMAIN old \ {key} : new[o] = old[o]
                   /\ (i < Len(call_log) /\ IsCall(i + 1, "get_session_id", key))
                          => call_log[i + 1].result = call_log[i].result
    /\ call_log # <<>> => active_sessions = call_log[Len(call_log)].after

\* a reset of an absent key and a reset of a present key, another key present
C12_Witness ==
    /\ Len(call_log) = 4
    /\ IsCall(1, "get_session_id", <<"b1", "c2">>)
    /\ IsCall(2, "reset_session", <<"b1", "c1">>)
    /\ IsCall(3, "reset_session", <<"b1", "c1">>)
    /\ IsCall(4, "get_session_id", <<"b1", "c1">>)
    /\ <<"b1", "c1">> \notin DOMAIN Before(2)
    /\ <<"b1", "c1">> \in DOMAIN Before(3)
    /\ active_sessions[<<"b1", "c2">>] = call_log[1].result
    /\ active_sessions[<<"b1", "c1">>] = call_log[3].result

\* C13 as stated: a second reset_session in a row for the same key leaves the
\* registry as the first one left it.
C13_AsStated ==
    \A i \in 2..Len(call_log) :
        (call_log[i].op = "reset_session" /\ IsCall(i - 1, "reset_session", call_log[i].key))
        => call_log[i].after = call_log[i - 1].after

\* C13: reset_session is not idempotent. A second reset_session in a row for
\* the same key leaves the same keys in the registry and the same id for every
\* other key, but replaces the key's id once more by a different one.
C13_ResetTwice ==
    \A i \in 2..Len(call_log) :
        (call_log[i].op = "reset_session" /\ IsCall(i - 1, "reset_session", call_log[i].key))
        => LET key == call_log[i].key
               once == call_log[i - 1].after
               twice == call_log[i].after
           IN  /\ DOMAIN twice = DOMAIN once
               /\ \A o \in DOMAIN once \ {key} : twice[o] = once[o]
               /\ twice[key] # once[key]
               /\ twice[key] = call_log[i].result

\* two resets in a row of one key
C13_Witness ==
    /\ Len(call_log) = 2
    /\ IsCall(1, "reset_session", <<"b2", "c1">>)
    /\ IsCall(2, "reset_session", <<"b2", "c1">>)
    /\ active_sessions[<<"b2", "c1">>] = call_log[2].result

\* C14 as stated: a run of a scheduled task on the text-tagged backend runs
\* the text-tagged loop: the tool-call tags of the response are executed, and
\* what is delivered is the answer given after their results, a text without
\* tool-call tags.
C14_SameLoop ==
    (entry = "scheduled" /\ kind = "text")
    => /\ (pc = "k_send" /\ FindAll(resp.text) # <<>>) => tool_execs > 0
       /\ \A i \in DOMAIN sent : FindAll(sent[i]) = <<>>

\* the Turns that run r of the log wrote, as their places in the store
RunTurns(r) ==
    (call_log[r].base + 1) ..
        (IF r < Len(call_log) THEN call_log[r + 1].base ELSE Len(store))

\* C15 as stated: every run of a scheduled task in which an error was raised
\* ends with the error message delivered to the chat.
C15_AsStated ==
    (entry = "scheduled" /\ pc = "sched_idle" /\ ret.how = "raise")
    => (sent # <<>> /\ Last(sent) = SchedErrorText(ret.exc))

\* C15: an exception raised by the backend, by save_turn or by the delivery
\* of the result is caught inside _run_ai_task: the run goes on to send
\* "Scheduled task error: <e>" and ends; the exception never leaves the run,
\* and the scheduler can fire the job again.  The error message reaches the
\* chat unless its own send fails too, which is ignored: then nothing at all
\* is delivered.  A failing tool raises nothing in the run: the loop turns it
\* into the text of a tool result and calls the backend again.
C15_ErrorsCaught ==
    entry = "scheduled" =>
        /\ pc # "done"
        /\ ret.how = "raise" =>
              /\ pc \in {"k_error", "sched_idle"}
              /\ response_text = SchedErrorText(ret.exc)
              /\ pc = "sched_idle" =>
                    \/ sent # <<>> /\ Last(sent) = SchedErrorText(ret.exc)
                    \/ \A i \in DOMAIN sent : sent[i] # SchedErrorText(ret.exc)
        /\ (pc = "sched_idle" /\ runs < MaxRuns)
              => \A c \in Chats : ENABLED K_Run("b1", c)
        /\ (pc \in {"s_gather", "s_save_result"} /\ FailureSeen)
              => (ret.how = "none" /\ sent = <<>>)

\* a second run after a first one that ended by an error (it stored the
\* prompt only); the second fails at the delivery and the error message
\* is not delivered either
C15_Witness ==
    /\ entry = "scheduled" /\ runs = 2 /\ pc = "sched_idle"
    /\ base = 1
    /\ ret.how = "raise" /\ ret.exc = "DeliveryError"
    /\ sent = <<>>

\* C16: the first backend call of every run of a scheduled task gets exactly
\* one message, the task prompt as user message, whatever the store holds
\* from earlier runs; every Turn a run writes carries the session id
\* "scheduled_<bot_id>_<chat_id>" of the run's bot and chat, so two runs for
\* the same bot and chat use the same session id.
C16_ScheduledSession ==
    entry = "scheduled" =>
        /\ (pc \in {"s_await_model", "k_await_chat"} /\ backend_calls = 1)
              => messages = <<StrMsg("user", TaskPrompt)>>
        /\ \A r \in DOMAIN call_log :
              \A i \in RunTurns(r) :
                  store[i].session_id =
                      <<"scheduled_", call_log[r].key[1], "_", call_log[r].key[2]>>
        /\ \A r, q \in DOMAIN call_log :
              (r < q /\ call_log[r].key = call_log[q].key)
              => \A i \in RunTurns(r), j \in RunTurns(q) :
                    store[i].session_id = store[j].session_id

\* the second run for a chat, at its first backend call, the first run
\* having stored a whole tool round
C16_Witness ==
    /\ entry = "scheduled" /\ Len(call_log) = 2
    /\ call_log[1].key = call_log[2].key
    /\ pc = "s_await_model" /\ backend_calls = 1
    /\ RunTurns(1) = 1..4 /\ RunTurns(2) = {5}
    /\ store[2].role = "tool_use"

\* the last registration of name before call i of the log, 0 if there is none
LastReg(i, name) ==
    LET js == {j \in 1..(i - 1) : IsCall(j, "register", name)}
    IN  IF js = {} THEN 0 ELSE CHOOSE j \in js : \A m \in js : m <= j

\* the names of the list that are registered before call i, in the list's order
KnownNames(i, names) == SelectSeq(names, LAMBDA n : LastReg(i, n) # 0)

\* C17: after any sequence of register calls get(name) returns the capability
\* of the last registration for that name (None for a name never registered);
\* get_tools_by_names(names) returns the capabilities last registered for the
\* registered names of the list, in the order of the list (a name listed
\* twice gives its capability twice), leaves out the unknown names without an
\* error, and neither lookup changes the catalog.
C17_Catalog ==
    \A i \in 1..Len(call_log) :
        /\ call_log[i].op = "get" =>
              /\ call_log[i].result =
                    IF LastReg(i, call_log[i].key) = 0 THEN "None"
                    ELSE call_log[LastReg(i, call_log[i].key)].result
              /\ call_log[i].after = Before(i)
        /\ call_log[i].op = "get_tools_by_names" =>
              LET known == KnownNames(i, call_log[i].key)
              IN  /\ Len(call_log[i].result) = Len(known)
                  /\ \A j \in 1..Len(known) :
                        call_log[i].result[j] = call_log[LastReg(i, known[j])].result
                  /\ call_log[i].after = Before(i)

\* a name registered twice, then looked up alone and in a list with an
\* unknown name and a repeated one
C17_Witness ==
    /\ Len(call_log) = 4
    /\ IsCall(1, "register", "filesystem") /\ call_log[1].result.impl = 1
    /\ IsCall(2, "register", "filesystem") /\ call_log[2].result.impl = 2
    /\ IsCall(3, "get", "filesystem") /\ call_log[3].result.impl = 2
    /\ IsCall(4, "get_tools_by_names", <<"nope", "filesystem", "filesystem">>)
    /\ Len(call_log[4].result) = 2

\* the places of the Turns of a role in the history given, in order
TurnsOfRole(role) ==
    SelectSeq([i \in 1..Len(fn_in.history) |-> i],
              LAMBDA i : fn_in.history[i].role = role)

RECURSIVE BlocksOfType(_, _)
\* the blocks of a type in the messages' content lists, in order
BlocksOfType(ms, type) ==
    IF ms = <<>> THEN <<>>
    ELSE (IF ms[1].is_str THEN <<>>
          ELSE SelectSeq(ms[1].content, LAMBDA b : b.type = type))
         \o BlocksOfType(Tail(ms), type)

\* C18: round-trip grouping.  For every history of tool_use and tool_result
\* Turns, in any interleaving and with other Turns between, the message list
\* holds one tool_use block per tool_use Turn and one tool_result block per
\* tool_result Turn, in the Turns' order, and the n-th tool_use block and
\* the m-th tool_result block carry the same id exactly when the n-th
\* tool_use Turn and the m-th tool_result Turn carry the same tool_call_id
\* (a Turn without tool_call_id belongs to no pair).
C18_RoundTrip ==
    fn_out.done =>
        LET h == fn_in.history
            uses == TurnsOfRole("tool_use")
            ress == TurnsOfRole("tool_result")
            ublocks == BlocksOfType(fn_out.messages, "tool_use")
            rblocks == BlocksOfType(fn_out.messages, "tool_result")
        IN  /\ Len(ublocks) = Len(uses)
            /\ Len(rblocks) = Len(ress)
            /\ \A a \in DOMAIN ublocks, b \in DOMAIN rblocks :
                  (ublocks[a].id = rblocks[b].tool_use_id)
                  <=> /\ h[uses[a]].tool_call_id # 0
                      /\ h[uses[a]].tool_call_id = h[ress[b]].tool_call_id

\* two calls stored in a row, an assistant Turn, then the result of the
\* second call only
C18_Witness ==
    /\ fn_out.done /\ Len(fn_in.history) = 4
    /\ TurnsOfRole("tool_use") = <<1, 2>> /\ TurnsOfRole("tool_result") = <<4>>
    /\ fn_in.history[3].role = "assistant"
    /\ fn_in.history[1].tool_call_id = 1 /\ fn_in.history[2].tool_call_id = 2
    /\ fn_in.history[4].tool_call_id = 2
    /\ BlocksOfType(fn_out.messages, "tool_result")[1].tool_use_id
          = BlocksOfType(fn_out.messages, "tool_use")[2].id

\* Turn i of the history given starts a message: it is a user or assistant
\* Turn, or the first Turn of a run of tool_use or of tool_result Turns
StartsMessage(i) ==
    LET h == fn_in.history
    IN  \/ h[i].role \in {"user", "assistant"}
        \/ /\ h[i].role \in {"tool_use", "tool_result"}
           /\ (i = 1 \/ h[i - 1].role # h[i].role)

\* the length of the run of Turns of one role that starts at Turn i
RunLen(i) ==
    LET h == fn_in.history
    IN  Cardinality({n \in i..Len(h) : \A j \in i..n : h[j].role = h[i].role})

\* C19: build_messages (of a send without attachments) returns one message
\* per user or assistant Turn, with the Turn's role and content, one
\* assistant message per maximal run of consecutive tool_use Turns with one
\* tool_use block per Turn in order, and one user message per maximal run of
\* consecutive tool_result Turns with one tool_result block per Turn in
\* order; the messages are in the order of the Turns, and their number is
\* the number of user and assistant Turns plus the number of runs.  Turns
\* of any other role give no message and end a run.
C19_Grouping ==
    (fn_out.done /\ fn_in.attachments = <<>>) =>
        LET h == fn_in.history
            ms == fn_out.messages
            starts == SelectSeq([i \in 1..Len(h) |-> i], StartsMessage)
        IN  /\ Len(ms) = Len(starts)
            /\ \A k \in DOMAIN starts :
                  LET i == starts[k]
                  IN  IF h[i].role \in {"user", "assistant"}
                      THEN ms[k] = [role |-> h[i].role, is_str |-> TRUE,
                                    content |-> h[i].content]
                      ELSE /\ ms[k].role = IF h[i].role = "tool_use" THEN "assistant"
                                           ELSE "user"
                           /\ ~ms[k].is_str
                           /\ Len(ms[k].content) = RunLen(i)
                           /\ \A j \in 1..RunLen(i) :
                                 LET t == h[i + j - 1]
                                     b == ms[k].content[j]
                                 IN  /\ b.type = h[i].role
                                     /\ IF h[i].role = "tool_use"
                                        THEN /\ t.tool_call_id # 0 => b.id = t.tool_call_id
                                             /\ b.name = t.tool_name
                                             /\ JsonDumps(b.input) = t.content
                                        ELSE /\ t.tool_call_id # 0
                                                   => b.tool_use_id = t.tool_call_id
                                             /\ b.content = t.content

\* two runs of tool_use Turns with a user Turn between them
C19_Witness ==
    /\ fn_out.done /\ fn_in.attachments = <<>>
    /\ [i \in 1..Len(fn_in.history) |-> fn_in.history[i].role]
          = <<"tool_use", "tool_use", "user", "tool_use">>
    /\ Len(fn_out.messages) = 3
    /\ Len(fn_out.messages[1].content) = 2

\* the tokens of the bytes of an attachment
ByteTokens(att) == {att.data.bytes[i].b : i \in DOMAIN att.data.bytes}

\* C20: attachment classification.  When the message list built from the
\* history holds a message of role user, every attachment of the send is
\* appended as exactly one block, in order, to the last such message (whose
\* text content becomes a text block first) and no other message changes.
\* An image/* attachment gives an image block with the base64 encoding of
\* its bytes; a text/* attachment or one of the listed textual types gives a
\* text block with the file name and the decoded bytes (undecodable bytes
\* replaced); any other type gives a text block that names file, type and
\* size and holds none of the bytes.  Without a message of role user the
\* list is returned as built.
C20_Attachments ==
    (fn_out.done /\ fn_in.attachments # <<>>) =>
        LET plain == build_messages(fn_in.history)
            atts == fn_in.attachments
            ms == fn_out.messages
            users == {i \in DOMAIN plain : plain[i].role = "user"}
        IN  IF users = {} THEN ms = plain
            ELSE LET last == CHOOSE i \in users : \A j \in users : j <= i
                     had == IF plain[last].is_str THEN 1 ELSE Len(plain[last].content)
                 IN  /\ Len(ms) = Len(plain)
                     /\ \A i \in DOMAIN plain \ {last} : ms[i] = plain[i]
                     /\ ms[last].role = "user" /\ ~ms[last].is_str
                     /\ Len(ms[last].content) = had + Len(atts)
                     /\ IF plain[last].is_str
                        THEN ms[last].content[1].type = "text"
                             /\ ms[last].content[1].text = plain[last].content
                        ELSE SubSeq(ms[last].content, 1, had) = plain[last].content
                     /\ \A k \in DOMAIN atts :
                           LET att == atts[k]
                               b == ms[last].content[had + k]
                               texts == IF b.type = "text"
                                        THEN {b.text[i].s : i \in DOMAIN b.text}
                                        ELSE {}
                           IN  IF att.media_type[1] = "image"
                               THEN /\ b.type = "image"
                                    /\ b.source.media_type = att.media_type
                                    /\ b.source.data = [base64 |-> att.data.bytes]
                               ELSE IF att.media_type[1] = "text"
                                       \/ (att.media_type[1] = "application"
                                           /\ att.media_type[2] \in
                                                 {"json", "xml", "javascript", "x-yaml",
                                                  "sql", "x-sh", "xhtml+xml", "csv"})
                               THEN /\ b.type = "text"
                                    /\ att.filename \in texts
                                    /\ Len(b.text) = 4 + Len(att.data.bytes)
                                    /\ \A i \in DOMAIN att.data.bytes :
                                          b.text[4 + i].s =
                                              IF att.data.bytes[i].utf8
                                              THEN att.data.bytes[i].b ELSE "U+FFFD"
                               ELSE /\ b.type = "text"
                                    /\ att.filename \in texts
                                    /\ att.media_type[2] \in texts
                                    /\ \E i \in DOMAIN b.text :
                                          /\ b.text[i].kind = "%.1f"
                                          /\ b.text[i].tenths \in
                                                {t \in 0..(10 * att.data.len) :
                                                   /\ 2048 * t <= 20 * att.data.len + 1024
                                                   /\ 20 * att.data.len + 1024 < 2048 * (t + 1)}
                                    /\ texts \cap ByteTokens(att) = {}

\* a text file and a binary file sent with a message whose history holds an
\* earlier user message: both blocks go to the last user message only
C20_Witness ==
    /\ fn_out.done /\ Len(fn_in.attachments) = 2
    /\ [i \in 1..Len(fn_in.history) |-> fn_in.history[i].role]
          = <<"user", "assistant", "user">>
    /\ fn_out.messages[1].is_str
    /\ Len(fn_out.messages[3].content) = 3
    /\ fn_out.messages[3].content[3].text[8].tenths = 1

\* C21: handle() returns without waiting for the unit it starts, so while
\* units are in flight the handler accepts a further message of any chat,
\* also of a chat that has a unit in flight, and starts a unit for it; the
\* tracking table holds at most one entry per chat id, an entry of a unit of
\* that chat; and a unit can always take its next step, whatever the units
\* of the other chats are doing.
C21_UnitsPerChat ==
    /\ DOMAIN tracked \subseteq Chats
    /\ \A c \in DOMAIN tracked :
          tracked[c] \in DOMAIN units /\ units[tracked[c]].chat_id = c
    /\ Len(units) < MaxUnits => \A c \in Chats : ENABLED M_Handle(c)
    /\ \A u \in InFlight :
          /\ (units[u].st = "created" /\ ~units[u].cancel_event) => ENABLED M_Begin(u)
          /\ units[u].st = "awaiting" => ENABLED M_Finish(u)

\* two units of one chat in flight, the table holding the second
C21_Witness ==
    /\ Len(units) = 2 /\ InFlight = {1, 2}
    /\ units[1].chat_id = "c1" /\ units[2].chat_id = "c1"
    /\ units[1].st = "awaiting" /\ units[2].st = "created"
    /\ DOMAIN tracked = {"c1"} /\ tracked["c1"] = 2

\* C22 as stated: the binding is scoped to the call, the job a
\* scheduler-tool call of a processing unit asks the service for is bound
\* to the chat of that unit.
C22_ContextScoped ==
    \A by \in DOMAIN call_log :
        LET e == call_log[by]
        IN  (e.by[1] = "unit" /\ e.action \in {"add_cron", "add_once"}) =>
                (e.bot_id = "b1" /\ e.chat_id = units[e.by[2]].chat_id)


\* a backend call that was issued with the signal clear comes back with the
\* signal set
ReturnsWhileSet ==
    /\ pc \in {"s_await_model", "t_await_chat"}
    /\ cancel_event
    /\ resp = NoResp /\ resp' # NoResp

InvocationResults(block) ==
    {ToolOutput, ExecError(block.name, "boom"), TOOL_CANCELLED,
     UnknownToolError(block.name)}

\* the signal is set and the batch of the round has started
BatchCancelled == kind = "structured" /\ pc = "s_gather" /\ cancel_event

\* the tool_result Turns of the round are the last Turns of the store
RoundResultsStored(st, blocks, res) ==
    /\ Len(st) >= Len(blocks)
    /\ \A i \in 1..Len(blocks) :
         st[Len(st) - Len(blocks) + i] = ToolResultTurn(blocks, res[i])

IntentStored(st, r) ==
    LET blocks == ToolUseBlocks(r.content)
    IN  /\ Len(st) >= Len(blocks)
        /\ \A i \in 1..Len(blocks) :
             st[Len(st) - Len(blocks) + i] = ToolUseTurn(blocks[i], r)

\* save_turn of the last tool_use Turn of the response returns
LastIntentSaved ==
    /\ kind = "structured" /\ pc = "s_save_tool_use"
    /\ idx = Len(ToolUseBlocks(resp.content))
    /\ store' = Append(store, PendingTurn)
    /\ ret'.how # "raise"

\* C25: structured loop. The pre-batch check is made, and the batch started,
\* only when the tool_use Turns of the response are all persisted, and a tool
\* starts only with those Turns in the store; when the signal is set at the
\* check, the sentinel is returned with no tool started, the store ending
\* with the tool_use Turns and holding no tool_result Turn of their ids; a
\* Turn once persisted stays persisted.
C25_IntentFirst ==
    [][ LET blocks == ToolUseBlocks(resp.content)
        IN  /\ (kind = "structured" /\ pc = "s_save_tool_use" /\ pc' # pc
                  /\ ret'.how # "raise") => LastIntentSaved
            /\ LastIntentSaved =>
                 /\ IntentStored(store', resp)
                 /\ tool_execs' = tool_execs
                 /\ IF cancel_event
                    THEN /\ Returned(CANCELLED)'
                         /\ \A t \in 1..Len(store') :
                              store'[t].role = "tool_result" =>
                                \A b \in 1..Len(blocks) :
                                   store'[t].tool_call_id # blocks[b].id
                    ELSE /\ pc' = "s_gather"
                         /\ \A b \in DOMAIN batch' : batch'[b].st = "pending"
            /\ (kind = "structured" /\ tool_execs' # tool_execs) =>
                 /\ pc = "s_gather" /\ ~cancel_event
                 /\ \A b \in 1..Len(blocks) :
                      \E t \in 1..Len(store) : store[t] = ToolUseTurn(blocks[b], resp)
            /\ Len(store') >= Len(store)
            /\ SubSeq(store', 1, Len(store)) = store ]_vars

\* the signal arrived while the two tool_use Turns of a response were being
\* saved: both are the last Turns of the store, no tool ran, the sentinel is
\* returned
C25_Witness ==
    /\ kind = "structured" /\ Returned(CANCELLED) /\ ~pre_set
    /\ backend_calls = 1 /\ tool_execs = 0
    /\ Len(messages) > 0 /\ Last(messages).role = "assistant"
    /\ ~Last(messages).is_str
    /\ Len(store) >= 2
    /\ store[Len(store)].role = "tool_use" /\ store[Len(store) - 1].role = "tool_use"
    /\ store[Len(store)].tool_call_id # store[Len(store) - 1].tool_call_id


\* the structured loop waits for the answer to a call made after a round
AfterRound == kind = "structured" /\ pc = "s_await_model" /\ rounds >= 1

\* C26: structured loop. When a backend call follows a tool batch, the last
\* message of the in-memory list is the one user message appended after the
\* round's assistant message, it holds exactly one tool_result block per
\* tool_use block of that assistant message, in the same order and with the
\* same id, and the store ends with one tool_result Turn per block, with
\* that id, the name of the block's tool and the content of the block's
\* result, behind the tool_use Turns of the round.
C26_ResultFeedback ==
    AfterRound =>
        /\ Len(messages) >= 2
        /\ LET a == messages[Len(messages) - 1]
               u == messages[Len(messages)]
           IN  /\ a.role = "assistant" /\ ~a.is_str
               /\ u.role = "user" /\ ~u.is_str
               /\ LET uses == ToolUseBlocks(a.content)
                      k == Len(uses)
                      n == Len(store)
                  IN  /\ k >= 1
                      /\ Len(u.content) = k
                      /\ n >= 2 * k
                      /\ \A i \in 1..k :
                           /\ u.content[i].type = "tool_result"
                           /\ u.content[i].tool_use_id = uses[i].id
                           /\ store[n - k + i].role = "tool_result"
                           /\ store[n - k + i].tool_call_id = uses[i].id
                           /\ store[n - k + i].tool_name = uses[i].name
                           /\ store[n - k + i].content = u.content[i].content
                           /\ store[n - 2 * k + i].role = "tool_use"
                           /\ store[n - 2 * k + i].tool_call_id = uses[i].id

\* the second backend call is in flight after a round of two tools with
\* different names
C26_Witness ==
    /\ AfterRound /\ rounds = 1 /\ backend_calls = 2
    /\ Len(Last(messages).content) = 2
    /\ store[Len(store) - 1].tool_name = "filesystem"
    /\ store[Len(store)].tool_name = "nope"
    /\ store[Len(store) - 1].tool_call_id # store[Len(store)].tool_call_id
    /\ Last(messages).content[1].content = ToolOutput


\* the text-tagged loop comes to the check before invocation k of the round:
\* save_turn of the tagged assistant Turn has returned (k = 1), or the tool
\* of invocation k - 1 has (k = idx + 1)
ComesToCheck(k) ==
    /\ kind = "text" /\ ~cancel_req
    /\ \/ pc = "t_save_assistant" /\ k = 1 /\ store' # store
       \/ pc = "t_exec" /\ k = idx + 1
    /\ pc' # pc /\ ret'.how # "raise"
    /\ k <= Len(FindAll(resp.text))

\* C27: text-tagged loop. The signal is tested before each invocation of a
\* round: when it is set at the test before the k-th invocation, the sentinel
\* is returned at once, no tool is started, no backend call is issued, and the
\* last Turn of the store is the round's tagged assistant Turn (no result
\* Turn of the round is persisted); when it is clear, the loop goes on with
\* the round. No tool starts and no backend call is issued while the signal
\* is set.
C27_CancelInsideRound ==
    [][ /\ \A k \in 1..2 :
             ComesToCheck(k) =>
                IF cancel_event
                THEN /\ Returned(CANCELLED)'
                     /\ tool_execs' = tool_execs
                     /\ backend_calls' = backend_calls
                     /\ Len(results') = k - 1
                     /\ store'[Len(store')] = Turn("assistant", resp.text, 0, 0, "", 0)
                     /\ pc = "t_exec" => store' = store
                ELSE /\ ~Ended'
                     /\ pc' \in {"t_exec", "t_save_results"}
        /\ cancel_event => (tool_execs' = tool_execs /\ backend_calls' = backend_calls)
      ]_vars

\* the signal arrived while the first of two tools was running: the second
\* did not start, the tagged assistant Turn is the last Turn, the sentinel is
\* returned
C27_Witness ==
    /\ kind = "text" /\ Returned(CANCELLED) /\ ~pre_set
    /\ Len(FindAll(resp.text)) = 2
    /\ tool_execs = 1 /\ backend_calls = 1
    /\ Len(results) = 1
    /\ Len(store) > 0
    /\ Last(store) = Turn("assistant", resp.text, 0, 0, "", 0)
    /\ Last(messages) = StrMsg("assistant", resp.text)


\* the result strings the for loop can collect for one tag
CallResults(call) ==
    IF ~call.ok THEN {ToolErrorText("JSONDecodeError")}
    ELSE IF ~Registered(call.value.tool)
    THEN {ToolResultText(call.value.tool, UnknownToolError(call.value.tool))}
    ELSE {ToolResultText(call.value.tool, ToolOutput), ToolErrorText("boom")}

RECURSIVE JoinedInOrder(_, _)
\* text is the result strings of the calls, one per call in the order of the
\* calls, joined by a blank line
JoinedInOrder(text, calls) ==
    IF calls = <<>> THEN text = <<>>
    ELSE IF Len(calls) = 1 THEN text \in CallResults(calls[1])
    ELSE \E r \in CallResults(calls[1]) :
            /\ Len(text) >= Len(r) + 2
            /\ SubSeq(text, 1, Len(r) + 2) = r \o <<Chr("\n"), Chr("\n")>>
            /\ JoinedInOrder(SubSeq(text, Len(r) + 3, Len(text)), Tail(calls))

\* the text-tagged loop waits for the answer to a call made after a round
AfterTaggedRound == kind = "text" /\ pc = "t_await_chat" /\ rounds >= 1

\* C28: text-tagged loop. The loop is suspended in at most one tool execution
\* and runs no concurrent batch; the tool that is executing belongs to a
\* well-formed tag with a registered name, and exactly the tags before it
\* have their result, the j-th result being a result of the j-th tag (the
\* calls are taken in document order); the user message and the user Turn of
\* a finished round are the results of all its tags, in the order of the
\* tags, joined by a blank line.
C28_Sequential ==
    /\ kind = "text" =>
         LET calls == FindAll(resp.text)
         IN  /\ batch = <<>>
             /\ pc = "t_exec" =>
                  /\ idx \in 1..Len(calls)
                  /\ Len(results) = idx - 1
                  /\ calls[idx].ok /\ Registered(calls[idx].value.tool)
             /\ pc = "t_save_results" => Len(results) = Len(calls)
             /\ Len(results) <= Len(calls)
             /\ \A j \in 1..Len(results) : results[j] \in CallResults(calls[j])
    /\ AfterTaggedRound =>
         /\ Len(messages) >= 2
         /\ JoinedInOrder(Last(messages).content,
                          FindAll(messages[Len(messages) - 1].content))
         /\ Last(store) = Turn("user", Last(messages).content, 0, 0, "", 0)

\* a round with a tag for a registered tool and a tag for an unknown one: the
\* output of the first and the error of the second, in that order
C28_Witness ==
    /\ AfterTaggedRound /\ rounds = 1 /\ tool_execs = 1
    /\ Last(messages).content =
         Join(<<Chr("\n"), Chr("\n")>>,
              <<ToolResultText("filesystem", ToolOutput),
                ToolResultText("nope", UnknownToolError("nope"))>>)


\* the Turns the loop has persisted: those behind the Turns of earlier
\* messages and the user Turn handle() saved for this message
LoopTurns ==
    LET start == IF entry = "handle" /\ pc \notin {"idle", "handle_raised"}
                 THEN base + 1 ELSE base
    IN  SubSeq(store, start + 1, Len(store))

\* C29: text-tagged loop. The Turns the loop persists are, round after round,
\* one assistant Turn with the tagged response text as the backend gave it
\* followed by one user Turn with the results of all its tags joined by a
\* blank line; no Turn has the role tool_use or tool_result; a round that was
\* aborted, or is not finished, has its assistant Turn only; a response
\* without tags persists one assistant Turn, with the stripped text, which is
\* the last Turn, and the loop has ended. (Stated of the last two Turns of
\* every reachable state: the store only grows, so every Turn the loop
\* persists is the last Turn of the state its save_turn leads to.)
C29_PersistedShape ==
    kind = "text" =>
        LET own == LoopTurns
            n == Len(own)
        IN  /\ \/ n \in {2 * rounds, 2 * rounds + 1}
               \/ n = 2 * rounds + 2 /\ ret.exc = "CancelledError"
            /\ \A p \in {q \in {n - 1, n} : q >= 1} :
                 /\ own[p].role \notin {"tool_use", "tool_result"}
                 /\ own[p].role = IF p % 2 = 1 THEN "assistant" ELSE "user"
                 /\ own[p].tool_name = "" /\ own[p].tool_call_id = 0
                 /\ (p % 2 = 1 /\ p < n) => FindAll(own[p].content) # <<>>
                 /\ (p % 2 = 1 /\ FindAll(own[p].content) # <<>>) =>
                        own[p].content \in {TaggedText(shape) : shape \in TagShapes}
                 /\ (p % 2 = 1 /\ FindAll(own[p].content) = <<>>) =>
                        /\ Ended
                        /\ own[p].content \in
                             {Strip(t) : t \in FinalTexts \cup ChatErrorTexts}
                        /\ ret.how = "return" => ret.value = own[p].content
                 /\ p % 2 = 0 =>
                        JoinedInOrder(own[p].content, FindAll(own[p - 1].content))

\* a round with a tag, then the final answer: three Turns
C29_Witness ==
    /\ kind = "text" /\ rounds = 1 /\ Returned(Txt("Found 2 files"))
    /\ Len(LoopTurns) = 3
    /\ LoopTurns[1].content = TaggedText(<<"BAD", "filesystem">>)
    /\ LoopTurns[2].role = "user"
    /\ LoopTurns[3] = Turn("assistant", Txt("Found 2 files"), 7, 3, "", 0)


\* the text ends with the reminder
EndsWithReminder(text) ==
    /\ Len(text) >= Len(ToolReminder)
    /\ SubSeq(text, Len(text) - Len(ToolReminder) + 1, Len(text)) = ToolReminder

\* the message carries the reminder: at the end of its str content, or at
\* the end of one of its text blocks
Reminded(m) ==
    IF m.is_str THEN EndsWithReminder(m.content)
    ELSE \E b \in 1..Len(m.content) :
            m.content[b].type = "text" /\ EndsWithReminder(m.content[b].text)

\* C30: text-tagged loop. The system prompt is the configured prompt, followed
\* by the tool catalog exactly when a tool is selected; with no tool selected
\* the messages are given as they were built; with a tool selected the
\* latest user message, the message of the current turn, carries the
\* reminder, also when attachments were added to it, and no other user
\* message is changed.
C30_Augmentation ==
    "system" \in DOMAIN fn_out =>
        LET tl == get_tools_by_names(fn_in.names)
            ms == fn_out.prepared
            users == {i \in 1..Len(ms) : ms[i].role = "user"}
        IN  /\ fn_out.system =
                 SystemPrompt \o (IF tl # <<>> THEN build_tool_system_prompt(tl) ELSE <<>>)
            /\ Len(ms) = Len(fn_out.messages)
            /\ tl = <<>> => ms = fn_out.messages
            /\ (tl # <<>> /\ users # {}) =>
                 LET last == CHOOSE i \in users : \A j \in users : j <= i
                 IN  /\ Reminded(ms[last])
                     /\ \A i \in users \ {last} : ms[i] = fn_out.messages[i]


\* the loop has made its working copy in this step
Augments == "system" \notin DOMAIN fn_out /\ "system" \in DOMAIN fn_out'

\* C31: text-tagged loop. Refusal rewriting and reminder injection leave the
\* persisted Turns and the messages of the caller's list as they were: the
\* list the backend is given is a copy of the same length whose messages are
\* the caller's, except that a str content may be replaced by the refusal
\* note (assistant) or extended by the reminder (user).
C31_CopyOnly ==
    [][ /\ fn_in' = fn_in
        /\ Augments =>
             /\ fn_out'.messages = fn_out.messages
             /\ Len(fn_out'.prepared) = Len(fn_out.messages)
             /\ \A i \in 1..Len(fn_out.messages) :
                  LET m == fn_out.messages[i]
                      c == fn_out'.prepared[i]
                  IN  \/ c = m
                      \/ /\ m.role = "assistant" /\ m.is_str /\ IsRefusal(m.content)
                         /\ c = [m EXCEPT !.content = REFUSAL_NOTE]
                      \/ /\ m.role = "user" /\ m.is_str
                         /\ c = [m EXCEPT !.content = m.content \o ToolReminder] ]_vars

\* a refusal was rewritten and the reminder injected in the copy, and the
\* caller's list still holds the refusal and no reminder
C31_Witness ==
    /\ "system" \in DOMAIN fn_out
    /\ \E i \in 1..Len(fn_out.messages) :
         /\ fn_out.messages[i] = StrMsg("assistant", RefusalTurn.content)
         /\ fn_out.prepared[i] = StrMsg("assistant", REFUSAL_NOTE)
    /\ \E j \in 1..Len(fn_out.messages) :
         /\ fn_out.messages[j] = StrMsg("user", Txt("hi"))
         /\ fn_out.prepared[j] = StrMsg("user", Txt("hi") \o ToolReminder)


\* C32: when a processing unit has ended, on whatever path, no temporary file
\* created for its attachments is left
C32_TempFilesReleased ==
    fn_out.pc = "ended" => fn_out.disk = {}


RECURSIVE Concat(_)
\* the chunks one after the other
Concat(chunks) == IF chunks = <<>> THEN <<>> ELSE Head(chunks) \o Concat(Tail(chunks))

\* the text without its newlines
Letters(t) == SelectSeq(t, LAMBDA seg : ~IsNewline(seg))

RECURSIVE SplitsAtNewlines(_, _, _)
\* chunks are what is cut from t: a rest that fits is the last chunk; else
\* the chunk is the prefix of t in front of the last newline among the first
\* max characters, or the first max characters when there is none, and the
\* other chunks are cut from what follows with its leading newlines removed
SplitsAtNewlines(t, chunks, max) ==
    IF t = <<>> THEN chunks = <<>>
    ELSE IF Len(t) <= max THEN chunks = <<t>>
    ELSE /\ chunks # <<>>
         /\ LET c == Head(chunks)
                nl == {i \in 1..max : IsNewline(t[i])}
            IN  /\ Len(c) <= max
                /\ c = SubSeq(t, 1, Len(c))
                /\ IF nl = {} THEN Len(c) = max
                   ELSE /\ IsNewline(t[Len(c) + 1])
                        /\ \A i \in nl : i <= Len(c) + 1
                /\ SplitsAtNewlines(LStripNewlines(SubSeq(t, Len(c) + 1, Len(t))),
                                    Tail(chunks), max)

\* C33: _split_message returns (it terminates) for every text and every
\* max_length > 0; every chunk has at most max_length characters; the chunks
\* in order hold the characters of the text, newlines at the split points
\* left out; a text that fits is returned as one chunk; a split falls in
\* front of the last newline among the first max_length characters of what
\* is left whenever there is one, and after max_length characters otherwise.
C33_Split ==
    fn_out.done =>
        LET text == fn_in.text
            max == fn_in.max_length
            chunks == fn_out.chunks
        IN  /\ Len(chunks) \in 1..(Len(text) + 1)
            /\ \A c \in 1..Len(chunks) : Len(chunks[c]) <= max
            /\ Letters(Concat(chunks)) = Letters(text)
            /\ Len(Concat(chunks)) <= Len(text)
            /\ IF Len(text) <= max THEN chunks = <<text>>
               ELSE SplitsAtNewlines(text, chunks, max)

\* "a\n\naaa" with max_length 2: a split at the newlines, both of them left
\* out, and a split after two characters of the line that is too long
C33_Witness ==
    /\ fn_out.done
    /\ fn_in.max_length = 2
    /\ fn_in.text = <<Chr("a"), Chr("\n"), Chr("\n"), Chr("a"), Chr("a"), Chr("a")>>
    /\ fn_out.chunks = << <<Chr("a")>>, <<Chr("a"), Chr("a")>>, <<Chr("a")>> >>

\* the last user message of a message list, <<>> when it has none
LastUserMessage(msgs) ==
    LET us == {i \in 1..Len(msgs) : msgs[i].role = "user"}
    IN  IF us = {} THEN <<>> ELSE <<msgs[CHOOSE i \in us : \A j \in us : j <= i]>>

\* C34: for every inbound non-command message, whatever the number of Turns
\* the session already stores, the message list given to the first backend
\* call has the Turn just saved as its last user message.
C34_JustSavedIsLast ==
    fn_out.pc = "task_created" =>
        LastUserMessage(fn_out.messages) = <<StrMsg("user", fn_out.saved[1].content)>>

\* every assistant message of msgs that holds tool_use blocks is immediately
\* followed by a user message with a tool_result block for each of their ids
ToolUsePaired(msgs) ==
    \A i \in 1..Len(msgs) :
        LET uses == IF msgs[i].role = "assistant" /\ ~msgs[i].is_str
                    THEN {k \in 1..Len(msgs[i].content) :
                              msgs[i].content[k].type = "tool_use"}
                    ELSE {}
        IN  uses # {} =>
                /\ i < Len(msgs)
                /\ msgs[i + 1].role = "user" /\ ~msgs[i + 1].is_str
                /\ \A k \in uses :
                      \E r \in 1..Len(msgs[i + 1].content) :
                          /\ msgs[i + 1].content[r].type = "tool_result"
                          /\ msgs[i + 1].content[r].tool_use_id = msgs[i].content[k].id

\* the message list handle() builds for a message that arrives in this state
NextUnitMessages ==
    build_messages(get_session_history(
        Append(store, Turn("user", Txt("and 3+3?"), 0, 0, "", 0))))

\* C35: structured backend, units of one session. In every message list
\* sent to the backend, that of the running unit and that of a unit started
\* by a message arriving in any state of it (while it executes tools, after
\* it was cancelled, after it ended), each assistant message with tool_use
\* blocks is immediately followed by a user message with a tool_result
\* block for each of those ids.
C35_ToolUsePaired ==
    (kind = "structured" /\ entry = "handle" /\ pc # "idle" /\ pc # "handle_raised") =>
        /\ pc = "s_await_model" => ToolUsePaired(messages)
        /\ ToolUsePaired(NextUnitMessages)

\* the units started for chat c, and the one started last
UnitsOf(c) == {u \in DOMAIN units : units[u].chat_id = c}
LatestOf(c) == CHOOSE u \in UnitsOf(c) : \A v \in UnitsOf(c) : v <= u

\* C36: whenever the unit started last for a chat is still running, the
\* tracking table holds that unit for the chat (so that /stop sets that
\* unit's signal), also when an earlier unit of the chat has finished
\* meanwhile.
C36_LatestTracked ==
    \A c \in Chats :
        (UnitsOf(c) # {} /\ units[LatestOf(c)].st # "done") =>
            (c \in DOMAIN tracked /\ tracked[c] = LatestOf(c))

\* C37: media queued by a tool during the unit of chat c is delivered only
\* to chat c and only with that unit's response: every image of a message
\* handed to the adapter was queued by the unit that sends it.
C37_MediaScoped ==
    \A d \in 1..Len(call_log) :
        \A k \in 1..Len(call_log[d].attachments) :
            call_log[d].attachments[k].by = call_log[d].unit

\* a structured-loop invocation started by handle() has returned a final
\* answer (neither sentinel)
EndedWithAnswer ==
    /\ kind = "structured" /\ entry = "handle"
    /\ ret.how = "return" /\ ret.value # CANCELLED /\ ret.value # LIMIT

\* C39: when a structured-loop invocation ends with a final answer, the
\* list build_messages rebuilds from the Turns persisted for the session
\* equals the in-memory list the loop ended with: same roles, same blocks.
C39_RebuildEqual ==
    EndedWithAnswer => build_messages(get_session_history(store)) = messages

\* C38: after /reset for a chat, the list handed to the unit of the next
\* message of the chat (its first backend call) holds no Turn stored before
\* the reset, and a unit in flight at a reset saves its Turns under the
\* session id it started with, never under the new one.
C38_ResetIsolates ==
    /\ \A u \in DOMAIN units :
          \A k \in 1..Len(units[u].history) :
              /\ units[u].history[k].resets = units[u].resets
              /\ units[u].history[k].chat_id = units[u].chat_id
    /\ \A k \in 1..Len(fn_out) :
          LET r == fn_out[k]
          IN  /\ r.session_id = units[r.by].session_id
              /\ r.resets > units[r.by].resets => r.session_id # r.current

\* a chat has been reset while its first unit was in flight; the unit has
\* saved Turns since, and the unit of the next message has its list
C38_Witness ==
    /\ Len(units) = 2 /\ units[1].chat_id = "c1" /\ units[2].chat_id = "c1"
    /\ units[1].resets = 0 /\ units[2].resets = 1
    /\ units[1].st = "done"
    /\ \E k \in 1..Len(fn_out) :
          fn_out[k].by = 1 /\ fn_out[k].resets = 1 /\ fn_out[k].role = "tool_use"
    /\ Len(units[2].history) = 1

\* C40: when add_cron or add_once of the scheduler tool returns its success
\* text, a job with the unit's (bot_id, chat_id) is registered in the
\* scheduler service; and remove reports success only when a job with the
\* given id existed and has been removed.
C40_SchedulerTool ==
    \A by \in DOMAIN call_log :
        LET e == call_log[by]
        IN  e.by[1] = "unit" =>
              /\ e.text \in {"AI cron job created", "AI one-shot job created"} =>
                    \E j \in jobs : j.bot_id = "b1" /\ j.chat_id = units[e.by[2]].chat_id
              /\ e.text = "Job j1 removed successfully." => e.existed

====
